---- MODULE Spec2Model ----
(***************************************************************************)
(* The tab-side media detection engine of media-control-extension:         *)
(* ElementSourceObserver, the observation strategies, ElementGroupObserver,*)
(* PlaybackPositionProgressElementObserver and TabMediaObserver            *)
(* (src/lib/tab-media/observer.ts, element-source.ts in                    *)
(* src/unnamed/part_012, state.ts and constants.ts in src/unnamed/part_013,*)
(* playback-state.ts in src/unnamed/part_015).                             *)
(*                                                                         *)
(* One step of the model is one task of the page's event loop: a call of   *)
(* the public API, a timer callback, a DOM event, a MutationObserver       *)
(* callback, or a change the page makes to its own document.               *)
(***************************************************************************)
EXTENDS Integers, Sequences, FiniteSets, TLC

\* ------------------------------------------------------------------ bounds

\* Timers of one kind (intervals, pending zero-delay checks) per source observer.
MaxTimers == 2
\* A source observer has at most MaxChecks immediate checks pending.
MaxChecks == 1
\* The clock runs up to the second MaxSeconds.
MaxSeconds == 1
\* Attribute writes of one script of the page: the mutation records of one batch.
MaxRecords == 1

\* ------------------------------------------------------- program constants

PROGRESS_MILLIS_EPSILON == 25
PROGRESS_SECS_EPSILON == 250
\* ProgressElementPrecision
Seconds == 1
Milliseconds == 1000
PLAYBACK_POSITION_PRECISION == Milliseconds

\* JavaScript's null, and the number NaN (all other numbers of the model are >= 0).
NULL == "null"
NoNumber == 0 - 1
NaN == 0 - 2

\* ---------------------------------------------------------------- helpers

Max(a, b) == IF a >= b THEN a ELSE b
Min(a, b) == IF a <= b THEN a ELSE b
Abs(a) == IF a >= 0 THEN a ELSE 0 - a

\* Nth(k, n, m): the index into a sequence of length n that the k-th iteration of
\* nested loops reaches, when the loops nested inside it make m iterations each time.
Nth(k, n, m) == (((k - 1) \div m) % n) + 1

\* --------------------------------------------------------------- the page

MediaElements == {"m1", "m2"}
ProgressElements == {"p1", "p2"}
\* Document order of the elements (querySelectorAll returns document order).
MediaOrder == <<"m1", "m2">>
ProgressOrder == <<"p1", "p2">>

VARIABLES
  now,    \* Date.now(), in milliseconds
  page,   \* the document and navigator.mediaSession
  mg,     \* TabMediaObserver.mediaElementObserver: an ElementGroupObserver with
          \* its ElementSourceObserver and EventListenerObservationStrategy
  pg,     \* PlaybackPositionProgressElementObserver.elementGroupObserver, with its
          \* ElementSourceObserver and NodeMutationObservationStrategy
  ppo,    \* the fields of PlaybackPositionProgressElementObserver
  tmo,    \* the fields of TabMediaObserver
  last    \* history: what the last step did (callbacks invoked, decisions taken)

vars == <<now, page, mg, pg, ppo, tmo, last>>

\* ------------------------------------------------------- element sources

\* TabMediaElementSource.get(): the audio and video elements of the document whose
\* duration is neither NaN nor <= 0.
TabMediaElementSourceGet(p) ==
  SelectSeq(MediaOrder, LAMBDA e:
     /\ e \in p.media
     /\ p.mediaAttr[e].duration # NaN
     /\ p.mediaAttr[e].duration > 0)

\* TabProgressElementSource.get(): the range inputs and ARIA widgets of the document
\* that carry the three attributes, one wrapper per DOM node.
TabProgressElementSourceGet(p) ==
  SelectSeq(ProgressOrder, LAMBDA e: e \in p.progress)

\* ------------------------------------------------- ElementSourceObserver

\* start(currentElements): a new interval (the handle of an earlier one is
\* overwritten, not cleared) and a zero-delay first check (its handle is not kept).
sourceObserverStart(g, elements) ==
  [g EXCEPT !.previousElements = elements,
            !.intervalTimeout = TRUE,
            !.intervals = @ + 1,
            !.immediate = @ + 1]

\* stop(): clears the interval whose handle is stored.
sourceObserverStop(g) ==
  [g EXCEPT !.intervals = IF g.intervalTimeout THEN @ - 1 ELSE @,
            !.intervalTimeout = FALSE,
            !.previousElements = <<>>]

\* A comparison of the lengths alone.
lengthChanged(elements, previous) == Len(elements) # Len(previous)

\* The comparison of #intervalCallback: different length, or a different identity
\* at some index.
elementsChanged(elements, previous) ==
  \/ Len(elements) # Len(previous)
  \/ \E i \in 1..Len(elements) : elements[i] # previous[i]

\* ------------------------------------------------- observation strategies

\* The events of the EventListenerObservationStrategy of the media observer; the
\* NodeMutationObservationStrategy has one kind of notification.
MediaEventNames == <<"play", "pause", "timeupdate", "durationchange">>
MutationEventNames == <<"attributes">>

\* for (element of elements) for (callback of callbacks)
\*   observationStrategy.addListeners(element, callback):
\* one listener per element, callback and event name, in the order they are added.
addListeners(g, elements, callbacks) ==
  LET names == g.eventNames
  IN [g EXCEPT !.listeners = @ \o
       [k \in 1..(Len(elements) * Len(callbacks) * Len(names)) |->
          [element |-> elements[Nth(k, Len(elements), Len(callbacks) * Len(names))],
           callback |-> callbacks[Nth(k, Len(callbacks), Len(names))],
           eventName |-> names[Nth(k, Len(names), 1)]]]]

\* removeListeners() of either strategy (for the MutationObserver: disconnect()).
removeListeners(g) == [g EXCEPT !.listeners = <<>>]

\* ------------------------------------------------- ElementGroupObserver

internalStart(g, elements) ==
  IF Len(g.currentElements) > 0 THEN g
  ELSE IF Len(elements) = 0 THEN g
  ELSE addListeners([g EXCEPT !.currentElements = elements,
                           !.pendingEventCallbacks = <<>>],
                    elements, g.pendingEventCallbacks)

\* An #internalStop that forgets to make the registered callbacks pending again.
internalStopKeepingPending(g) ==
  IF Len(g.currentElements) = 0 THEN g
  ELSE [removeListeners(g) EXCEPT !.currentElements = <<>>]

internalStop(g) ==
  IF Len(g.currentElements) = 0 THEN g
  ELSE [removeListeners(g) EXCEPT !.currentElements = <<>>,
                                  !.pendingEventCallbacks = g.eventCallbacks]

\* start(), with `elements` the list elementSource.get() returns.
groupStart(g, elements) == internalStart(sourceObserverStart(g, elements), elements)

groupStop(g) == internalStop(sourceObserverStop(g))

groupRestart(g, elements) == groupStart(groupStop(g), elements)

addEventListener(g, callback) ==
  IF Len(g.currentElements) > 0
  THEN addListeners([g EXCEPT !.eventCallbacks = Append(@, callback)],
                    g.currentElements, <<callback>>)
  ELSE [g EXCEPT !.eventCallbacks = Append(@, callback),
                 !.pendingEventCallbacks = Append(@, callback)]

\* A listener that does nothing.
onElementsChangedIgnored(g, elements) == g

\* #onElementsChanged(elements): restarts; start() polls the source again, in the
\* same task, so it gets the same list.
onElementsChanged(g, elements) == groupRestart(g, elements)

\* ElementSourceObserver.#intervalCallback, with `elements` what source.get() returns.
\* The listener is the group observer's #onElementsChanged (set in its constructor).
intervalCallback(g, elements) ==
  IF elementsChanged(elements, g.previousElements)
  THEN [onElementsChanged(g, elements) EXCEPT !.previousElements = elements]
  ELSE g

\* A started source observer may create one more interval and one more pending check.
CanStart(g) == g.intervals < MaxTimers /\ g.immediate < MaxChecks

NewGroup(eventNames) ==
  [eventNames |-> eventNames, eventCallbacks |-> <<>>, currentElements |-> <<>>, pendingEventCallbacks |-> <<>>,
   listeners |-> <<>>,
   intervalTimeout |-> FALSE, intervals |-> 0, immediate |-> 0,
   previousElements |-> <<>>]

\* ------------------------------------------------- PlaybackState (playback-state.ts)

\* A nullable value is a sequence: <<>> is null, <<x>> is x.
Null == <<>>
Some(x) == <<x>>

\* JavaScript truthiness of a number | null.
Truthy(x) == x # NoNumber /\ x # NaN /\ x # 0

\* new PlaybackState(position, duration, playing, positionTimestamp) throws: a
\* comparison with NaN is false, and `duration && ...` is not true for null, NaN and 0.
constructorThrows(duration, positionTimestamp) ==
  \/ positionTimestamp # NaN /\ positionTimestamp < 0
  \/ Truthy(duration) /\ duration <= 0

\* A livePosition that extrapolates a paused state too.
livePositionWhilePaused(ps, when) ==
  IF ps.position = NaN THEN NaN
  ELSE LET thenPosition == Max(0, ps.position + (when - ps.positionTimestamp))
       IN IF Truthy(ps.duration) THEN Min(ps.duration, thenPosition) ELSE thenPosition

\* livePosition(when), for a timestamp that is not negative.
livePosition(ps, when) ==
  IF ~ps.playing THEN ps.position
  ELSE IF ps.position = NaN THEN NaN
  ELSE LET thenPosition == Max(0, ps.position + (when - ps.positionTimestamp))
       IN IF Truthy(ps.duration) THEN Min(ps.duration, thenPosition) ELSE thenPosition

\* a === b for number | null: NaN is not equal to itself.
StrictEqual(a, b) == a = b /\ a # NaN

\* livePosition(when): nothing when it throws, the position otherwise.
livePositionCall(ps, when) ==
  IF when < 0 THEN Null ELSE Some(livePosition(ps, when))

\* An equals that also compares the sources.
equalsWithSource(a, b, epsilon, when) ==
  /\ a.source = b.source
  /\ a.playing = b.playing
  /\ StrictEqual(a.duration, b.duration)
  /\ livePosition(a, when) # NaN
  /\ livePosition(b, when) # NaN
  /\ Abs(livePosition(a, when) - livePosition(b, when)) < epsilon

\* equals(other, epsilon); both live positions are taken at Date.now().
equals(a, b, epsilon, when) ==
  /\ a.playing = b.playing
  /\ StrictEqual(a.duration, b.duration)
  /\ livePosition(a, when) # NaN
  /\ livePosition(b, when) # NaN
  /\ Abs(livePosition(a, when) - livePosition(b, when)) < epsilon

\* ------------------------------------------------- TabMediaState (state.ts)

\* Constants.EPSILONS_FOR_PLAYBACK_STATE_SOURCE
EPSILONS_FOR_PLAYBACK_STATE_SOURCE ==
  [MediaElement |-> 100, ProgressElementMilliseconds |-> 250,
   ProgressElementSeconds |-> 1000, Estimated |-> 250]

\* A determineChanges that looks at the playback state before the metadata.
determineChangesPlaybackFirst(state, previousState, when) ==
  IF previousState = Null THEN "StartedPlaying"
  ELSE IF ~equals(previousState[1].playbackState, state.playbackState,
                  Min(EPSILONS_FOR_PLAYBACK_STATE_SOURCE[state.playbackState.source],
                      EPSILONS_FOR_PLAYBACK_STATE_SOURCE[previousState[1].playbackState.source]),
                  when)
       THEN "PlaybackStateChanged"
  ELSE IF previousState[1].mediaMetadata # state.mediaMetadata THEN "TrackChanged"
  ELSE "Nothing"

\* determineChanges(previousState); metadata are compared structurally, which for
\* the metadata values of the model (NULL, or a name for a content) is equality.
determineChanges(state, previousState, when) ==
  IF previousState = Null THEN "StartedPlaying"
  ELSE IF previousState[1].mediaMetadata # state.mediaMetadata THEN "TrackChanged"
  ELSE IF ~equals(previousState[1].playbackState, state.playbackState,
                  Min(EPSILONS_FOR_PLAYBACK_STATE_SOURCE[state.playbackState.source],
                      EPSILONS_FOR_PLAYBACK_STATE_SOURCE[previousState[1].playbackState.source]),
                  when)
       THEN "PlaybackStateChanged"
  ELSE "Nothing"

\* ------------------------------------------------- ProgressElement

\* multiplier = targetPrecision / valuePrecision; the target is always milliseconds.
multiplier(valuePrecision) == PLAYBACK_POSITION_PRECISION \div valuePrecision

\* #getFloat(name) of a wrapper with the given valuePrecision, on the raw attribute.
getFloat(raw, valuePrecision) ==
  IF raw = NoNumber \/ raw = NaN THEN raw ELSE raw * multiplier(valuePrecision)

\* ------------------------------------------------- TabMediaObserver

\* isMediaElementPaused(element): muted media counts as paused.
isMediaElementPaused(p, e) == p.mediaAttr[e].paused \/ p.mediaAttr[e].muted

\* Math.floor(seconds * 1000) of a media element's time, kept in microseconds.
floorMillis(micros) == micros \div 1000

TabMediaPlaybackState(source, position, duration, playing, positionTimestamp) ==
  [source |-> source, position |-> position, duration |-> duration,
   playing |-> playing, positionTimestamp |-> positionTimestamp]

\* #estimatedPlaybackPosition(isPlaying): the observer with the anchor set, and the
\* playback state.
estimatedAnchor(t, when) ==
  IF t.estimatedTrackStartTime = NoNumber THEN when ELSE t.estimatedTrackStartTime

estimatedPlaybackPosition(t, isPlaying, when) ==
  TabMediaPlaybackState("Estimated", when - estimatedAnchor(t, when), NoNumber,
                        isPlaying, when)

\* A playing flag that does not look at the progress element.
fusedPlayingWithoutProgress(t, p) ==
  /\ p.session.playbackState # "paused"
  /\ \/ p.session.playbackState = "playing"
     \/ t.currentMediaElement = NULL
     \/ ~isMediaElementPaused(p, t.currentMediaElement)

\* A source selection that prefers the progress element to the media element.
fusedSourceProgressFirst(t, P, p) ==
  IF /\ t.currentProgressElement # NULL
     /\ p.value[t.currentProgressElement] # NoNumber
     /\ p.max[t.currentProgressElement] # NoNumber
  THEN IF P.state[t.currentProgressElement].valuePrecision = Milliseconds
       THEN "ProgressElementMilliseconds"
       ELSE "ProgressElementSeconds"
  ELSE IF /\ t.currentMediaElement # NULL
          /\ p.mediaAttr[t.currentMediaElement].currentTime # NaN
          /\ p.mediaAttr[t.currentMediaElement].duration # NaN
  THEN "MediaElement"
  ELSE IF t.useEstimatedTrackStartTime THEN "Estimated"
  ELSE "none"

\* The playing flag of #currentMediaState.
fusedPlaying(t, p) ==
  LET session == p.session.playbackState
      isPlaying ==
        /\ session # "paused"
        /\ \/ session = "playing"
           \/ t.currentMediaElement = NULL
           \/ ~isMediaElementPaused(p, t.currentMediaElement)
  IN IF /\ isPlaying
        /\ session # "playing"
        /\ t.currentProgressElement # NULL
        /\ t.currentProgressElementMutating # "true"
     THEN FALSE
     ELSE isPlaying

\* Which branch of #currentMediaState supplies the playback state.
fusedSource(t, P, p) ==
  IF /\ t.currentMediaElement # NULL
     /\ p.mediaAttr[t.currentMediaElement].currentTime # NaN
     /\ p.mediaAttr[t.currentMediaElement].duration # NaN
  THEN "MediaElement"
  ELSE IF /\ t.currentProgressElement # NULL
          /\ p.value[t.currentProgressElement] # NoNumber
          /\ p.max[t.currentProgressElement] # NoNumber
  THEN IF P.state[t.currentProgressElement].valuePrecision = Milliseconds
       THEN "ProgressElementMilliseconds"
       ELSE "ProgressElementSeconds"
  ELSE IF t.useEstimatedTrackStartTime THEN "Estimated"
  ELSE "none"

\* #currentMediaState(): [tmo, state], the observer after the call (the estimate
\* sets the anchor) and the fused state or null.
currentMediaState(t, P, p, when) ==
  LET isPlaying == fusedPlaying(t, p)
      source == fusedSource(t, P, p)
      metadata == p.session.metadata
  IN CASE source = "MediaElement" ->
            [tmo |-> t,
             state |-> Some([mediaMetadata |-> metadata,
               playbackState |-> TabMediaPlaybackState(source,
                  floorMillis(p.mediaAttr[t.currentMediaElement].currentTime),
                  floorMillis(p.mediaAttr[t.currentMediaElement].duration),
                  isPlaying, when)])]
       [] source \in {"ProgressElementMilliseconds", "ProgressElementSeconds"} ->
            LET vp == P.state[t.currentProgressElement].valuePrecision
            IN [tmo |-> t,
                state |-> Some([mediaMetadata |-> metadata,
                  playbackState |-> TabMediaPlaybackState(source,
                     getFloat(p.value[t.currentProgressElement], vp),
                     getFloat(p.max[t.currentProgressElement], vp),
                     isPlaying, when)])]
       [] source = "Estimated" ->
            [tmo |-> [t EXCEPT !.estimatedTrackStartTime = estimatedAnchor(t, when)],
             state |-> Some([mediaMetadata |-> metadata,
               playbackState |-> estimatedPlaybackPosition(t, isPlaying, when)])]
       [] OTHER -> [tmo |-> t, state |-> Null]

\* One invocation of every registered TabMediaStateCallback with `payload`
\* (null, or the serialized state), as the history keeps it.
Deliveries(t, payload) ==
  [i \in 1..Len(t.eventCallbacks) |-> [callback |-> t.eventCallbacks[i], payload |-> payload]]

\* What the history keeps of one #handleUpdate(): the fused state, previousMediaState
\* before and after it, and the calls of the registered callbacks.
UpdateRecord(fused, previous, deliveries, after) ==
  [fused |-> fused, previous |-> previous, deliveries |-> deliveries, after |-> after]

\* A handler that emits on every classification.
emitsAlways(stateChange) == TRUE

\* Whether #handleUpdate emits for this classification.
emits(stateChange) == stateChange # "Nothing"

\* new TabMediaPlaybackState(...) in #currentMediaState throws: for the floored
\* duration of the media element, or the floored max of the progress element.
currentMediaStateThrows(t, P, p, when) ==
  LET source == fusedSource(t, P, p)
  IN CASE source = "MediaElement" ->
            constructorThrows(floorMillis(p.mediaAttr[t.currentMediaElement].duration), when)
       [] source \in {"ProgressElementMilliseconds", "ProgressElementSeconds"} ->
            constructorThrows(getFloat(p.max[t.currentProgressElement],
                                       P.state[t.currentProgressElement].valuePrecision),
                              when)
       [] OTHER -> FALSE

\* #handleUpdate() in the world w = [ppo, tmo, updates, calls]; an error thrown by
\* #currentMediaState leaves through the caller.
handleUpdate(w, p, when) ==
  LET r == currentMediaState(w.tmo, w.ppo, p, when)
      t == r.tmo
  IN IF currentMediaStateThrows(w.tmo, w.ppo, p, when)
     THEN [w EXCEPT !.thrown = TRUE]
     ELSE IF r.state = Null
     THEN [w EXCEPT !.tmo = t,
                    !.updates = Append(@, UpdateRecord(Null, t.previousMediaState,
                                                        Deliveries(t, Null),
                                                        t.previousMediaState))]
     ELSE
       LET state == r.state[1]
           stateChange == determineChanges(state, t.previousMediaState, when)
           restarts == stateChange \in {"StartedPlaying", "TrackChanged"}
           t2 == IF restarts THEN [t EXCEPT !.estimatedTrackStartTime = when] ELSE t
           state2 == IF restarts /\ state.playbackState.source = "Estimated"
                     THEN [state EXCEPT !.playbackState =
                             estimatedPlaybackPosition(t2, state.playbackState.playing, when)]
                     ELSE state
       IN IF ~emits(stateChange)
          THEN [w EXCEPT !.tmo = t,
                         !.updates = Append(@, UpdateRecord(r.state, t.previousMediaState, <<>>,
                                                             t.previousMediaState))]
          ELSE [w EXCEPT !.tmo = [t2 EXCEPT !.previousMediaState = Some(state2)],
                         !.updates = Append(@, UpdateRecord(r.state, t.previousMediaState,
                                                             Deliveries(t, Some(state2)),
                                                             Some(state2)))]

\* #onMediaElementUpdated(element)
onMediaElementUpdated(w, element, p, when) ==
  handleUpdate([w EXCEPT !.tmo.currentMediaElement = element,
                         !.tmo.useEstimatedTrackStartTime = FALSE], p, when)

\* #onProgressElementMutated(element)
onProgressElementMutated(w, element, p, when) ==
  handleUpdate([w EXCEPT !.tmo.currentProgressElement = element,
                         !.tmo.currentProgressElementMutating = "true",
                         !.tmo.useEstimatedTrackStartTime = FALSE], p, when)

\* #onProgressElementStoppedMutating(element)
onProgressElementStoppedMutating(w, element, p, when) ==
  IF element = w.tmo.currentProgressElement /\ w.tmo.currentProgressElementMutating = "true"
  THEN handleUpdate([w EXCEPT !.tmo.currentProgressElementMutating = "false"], p, when)
  ELSE w

\* ------------------------------- PlaybackPositionProgressElementObserver

\* JavaScript arithmetic and comparison on numbers that may be NaN.
IsNumber(x) == x # NaN /\ x # NoNumber
Sub(a, b) == IF a = NaN \/ b = NaN THEN NaN ELSE a - b
Mul(a, k) == IF a = NaN THEN NaN ELSE a * k
Less(a, b) == a # NaN /\ b # NaN /\ a < b
LessEq(a, b) == a # NaN /\ b # NaN /\ a <= b

\* No entry of progressElementState for an element.
NoEntry ==
  [has |-> FALSE, element |-> NULL, lastValue |-> NoNumber, lastValueTimestamp |-> NoNumber,
   valuePrecision |-> Milliseconds, updateInterval |-> NoNumber]

\* The entry the wrapped source creates: the baseline is the value the fresh wrapper
\* reads (valuePrecision Milliseconds, so a multiplier of 1) and the time of the poll.
FreshEntry(e, raw, when) ==
  [has |-> TRUE, element |-> e, lastValue |-> getFloat(raw, Milliseconds), lastValueTimestamp |-> when,
   valuePrecision |-> Milliseconds, updateInterval |-> NoNumber]

\* #wrapElementSource(source).get(): the side effect on progressElementState; an
\* entry that exists is kept as it is.
wrapElementSourceGet(P, p, when) ==
  [P EXCEPT !.state = [e \in ProgressElements |->
      IF e \in p.progress /\ ~P.state[e].has THEN FreshEntry(e, p.value[e], when)
      ELSE P.state[e]]]

\* #updateMutationStoppedTimeout(progressElement): the timeout that was pending is
\* cleared and a new one is set.
updateMutationStoppedTimeout(P, e) ==
  IF P.state[e].updateInterval = NoNumber THEN P
  ELSE [P EXCEPT !.mutationStoppedTimeout =
          Some([element |-> e,
                delay |-> IF P.state[e].updateInterval = NaN THEN NaN
                          ELSE P.state[e].updateInterval + 2 * PROGRESS_MILLIS_EPSILON])]

\* One registered mutation callback called with (element, mutation).
invokeMutationCallback(w, callback, m, p, when) ==
  LET w1 == [w EXCEPT !.calls = Append(@, [callback |-> callback,
                                            element |-> w.ppo.current,
                                            target |-> m.target,
                                            attributeName |-> m.attributeName])]
  IN IF callback = "onProgressElementMutated"
     THEN onProgressElementMutated(w1, w.ppo.current, p, when)
     ELSE w1

\* for (const callback of this.mutationCallbacks) callback(current, mutation)
RECURSIVE forwardMutation(_, _, _, _, _)
forwardMutation(w, callbacks, m, p, when) ==
  IF callbacks = <<>> \/ w.thrown THEN w
  ELSE forwardMutation(invokeMutationCallback(w, Head(callbacks), m, p, when),
                       Tail(callbacks), m, p, when)

\* A unit decision that never rescales, and one that compares the delta with the
\* elapsed seconds.
alwaysMillis(positionDelta, timeDeltaMillis) == TRUE
isMillisBySeconds(positionDelta, timeDeltaMillis) ==
  positionDelta # NaN /\ 1000 * positionDelta >= 2 * timeDeltaMillis

\* The unit decision of the rate test: milliseconds when the raw delta is at least
\* half the elapsed milliseconds.
isMillis(positionDelta, timeDeltaMillis) ==
  positionDelta # NaN /\ 2 * positionDelta >= timeDeltaMillis

\* The rate test of #onMutated on an entry with a baseline, for a new raw value that
\* is not <= the baseline: the numbers it computes.
rateTest(st, realNewValue, when) ==
  LET timeDeltaMillis == when - st.lastValueTimestamp
      rawDelta == Sub(realNewValue, st.lastValue)
      millis == isMillis(rawDelta, timeDeltaMillis)
      valuePrecision == IF millis THEN st.valuePrecision ELSE Seconds
      newValue == IF millis THEN realNewValue
                  ELSE Mul(realNewValue, multiplier(valuePrecision))
      lastValue == IF millis THEN st.lastValue
                   ELSE Mul(st.lastValue, multiplier(valuePrecision))
      positionDelta == Sub(newValue, lastValue)
      epsilon == IF millis THEN PROGRESS_MILLIS_EPSILON ELSE PROGRESS_SECS_EPSILON
      updateInterval == IF valuePrecision = Seconds THEN Mul(positionDelta, Milliseconds)
                        ELSE positionDelta
      difference == IF positionDelta = NaN THEN NaN
                    ELSE Abs(timeDeltaMillis - positionDelta)
  IN [element |-> st.element, isMillis |-> millis, timeDeltaMillis |-> timeDeltaMillis,
      rawDelta |-> rawDelta, lastValue |-> lastValue, newValue |-> newValue,
      positionDelta |-> positionDelta, epsilon |-> epsilon,
      valuePrecision |-> valuePrecision, updateInterval |-> updateInterval,
      difference |-> difference,
      passed |-> LessEq(difference, epsilon)]

\* The entry with (lastValue, lastValueTimestamp) replaced by the new sample.
rebaseline(st, realNewValue, when) ==
  [st EXCEPT !.lastValue = realNewValue, !.lastValueTimestamp = when]

\* An observer that never takes the element for found.
neverLocked(P) == FALSE

\* if (this.currentPlaybackPositionProgressElement): the element has been found.
locked(P) == P.current # NULL

\* The body of the loop of #onMutated for one mutation record m = [target,
\* attributeName], on the page p at time `when`.
onMutatedRecord(w, m, p, when) ==
  LET P == w.ppo
      e == m.target
      st == P.state[e]
      realNewValue == p.value[e]
  IN IF e \notin p.progress THEN w                     \* !document.contains(target)
     ELSE IF ~st.has THEN w
     ELSE IF locked(P) THEN
       LET w1 == [w EXCEPT !.ppo = updateMutationStoppedTimeout(P, P.current)]
       IN IF P.current = e
          THEN forwardMutation(w1, P.mutationCallbacks, m, p, when)
          ELSE w1
     ELSE IF m.attributeName # "value" THEN w
     ELSE IF realNewValue = NoNumber THEN w            \* getAttribute() === null
     ELSE IF st.lastValue = NoNumber \/ st.lastValueTimestamp = NoNumber
       THEN [w EXCEPT !.ppo.state[e] = rebaseline(st, realNewValue, when)]
     ELSE IF LessEq(realNewValue, st.lastValue)
       THEN [w EXCEPT !.ppo.state[e] = rebaseline(st, realNewValue, when)]
     ELSE
       LET r == rateTest(st, realNewValue, when)
           st1 == [st EXCEPT !.valuePrecision = r.valuePrecision,
                             !.updateInterval = r.updateInterval]
       IN IF r.passed
          THEN [w EXCEPT !.ppo.current = e,
                          !.ppo.state[e] = [st1 EXCEPT !.lastValue = NoNumber,
                                                       !.lastValueTimestamp = NoNumber]]
          ELSE [w EXCEPT !.ppo.state[e] = rebaseline(st1, realNewValue, when)]

\* What the history keeps of one iteration of the loop of #onMutated: the record,
\* what the page held, and the observer's fields before and after the iteration.
Snapshot(P, e) ==
  [current |-> P.current, entry |-> P.state[e], timeout |-> P.mutationStoppedTimeout]

Visit(w, w1, m, p) ==
  [target |-> m.target, attributeName |-> m.attributeName,
   inDocument |-> m.target \in p.progress, value |-> p.value[m.target],
   before |-> Snapshot(w.ppo, m.target), after |-> Snapshot(w1.ppo, m.target),
   forwarded |-> Len(w1.calls) - Len(w.calls)]

\* #onMutated(element, mutations): the records in the order of the batch.
RECURSIVE onMutated(_, _, _, _)
onMutated(w, mutations, p, when) ==
  IF mutations = <<>> \/ w.thrown THEN w
  ELSE LET w1 == onMutatedRecord(w, Head(mutations), p, when)
       IN onMutated([w1 EXCEPT !.visits = Append(@, Visit(w, w1, Head(mutations), p))],
                    Tail(mutations), p, when)

\* NodeMutationObservationStrategy.#mutationCallback(mutations): every listener (one
\* per tracked element and callback) is called with the whole batch.
RECURSIVE mutationCallback(_, _, _, _, _)
mutationCallback(w, listeners, mutations, p, when) ==
  IF listeners = <<>> \/ w.thrown THEN w
  ELSE mutationCallback(onMutated(w, mutations, p, when), Tail(listeners),
                        mutations, p, when)

\* One registered stopped-mutating callback called with the element.
invokeMutationStoppedCallback(w, callback, e, p, when) ==
  LET w1 == [w EXCEPT !.stopped = Append(@, [callback |-> callback, element |-> e])]
  IN IF callback = "onProgressElementStoppedMutating"
     THEN onProgressElementStoppedMutating(w1, e, p, when)
     ELSE w1

\* #mutationStoppedHandler(progressElement)
RECURSIVE mutationStoppedHandler(_, _, _, _, _)
mutationStoppedHandler(w, callbacks, e, p, when) ==
  IF callbacks = <<>> \/ w.thrown THEN w
  ELSE mutationStoppedHandler(invokeMutationStoppedCallback(w, Head(callbacks), e, p, when),
                              Tail(callbacks), e, p, when)

\* ------------------------------------------------------------- the steps

\* The world a task starts in, and the history a step leaves.
World == [ppo |-> ppo, tmo |-> tmo, updates |-> <<>>, calls |-> <<>>,
          visits |-> <<>>, stopped |-> <<>>, thrown |-> FALSE]

History(op, w, polled, changed) ==
  [op |-> op, updates |-> w.updates, calls |-> w.calls, visits |-> w.visits,
   stopped |-> w.stopped, polled |-> polled, changed |-> changed,
   thrown |-> w.thrown]

Quiet(op) == History(op, World, <<>>, FALSE)

\* Instants of the clock: with a short and a long interval between them, and the
\* whole seconds.
Clock == {0} \cup {s * 1000 + 26 : s \in 0..MaxSeconds}
WholeSeconds == {s * 1000 : s \in 0..MaxSeconds}

\* Time passes: the clock reaches the instant t.
Tick(t) ==
  /\ t > now /\ now' = t
  /\ last' = Quiet("Tick")
  /\ UNCHANGED <<page, mg, pg, ppo, tmo>>

\* Whether the MutationObserver observes e: observe() was called for it since the
\* last disconnect().
Observed(g, e) == \E i \in 1..Len(g.listeners) : g.listeners[i].element = e

\* The page after a script has written the attributes of `writes` (a sequence of
\* [target, attributeName, value]) in order.
RECURSIVE WriteAll(_, _)
WriteAll(p, writes) ==
  IF writes = <<>> THEN p
  ELSE LET wr == Head(writes)
       IN WriteAll(IF wr.attributeName = "value"
                   THEN [p EXCEPT !.value[wr.target] = wr.value]
                   ELSE [p EXCEPT !.max[wr.target] = wr.value],
                   Tail(writes))

\* The mutation records the writes queue: one per write to an observed element (also
\* when the value written is the value the attribute had).
RecordsOf(g, writes) ==
  LET observed == SelectSeq(writes, LAMBDA wr : Observed(g, wr.target))
  IN [i \in 1..Len(observed) |->
        [target |-> observed[i].target, attributeName |-> observed[i].attributeName]]

\* A script of the page writes attributes of progress elements; at the end of the
\* script (the microtask checkpoint, before any other task runs) the
\* MutationObserver delivers the records to #mutationCallback.
Mutate(writes) ==
  /\ page' = WriteAll(page, writes)
  /\ LET w == mutationCallback(World, pg.listeners, RecordsOf(pg, writes), page', now)
     IN /\ ppo' = w.ppo
        /\ tmo' = w.tmo
        /\ last' = History("Mutate", w, <<>>, FALSE)
  /\ UNCHANGED <<now, mg, pg>>

\* The page inserts a progress element into the document, or removes it.
InsertProgress(e) ==
  /\ e \notin page.progress
  /\ page' = [page EXCEPT !.progress = @ \cup {e}]
  /\ last' = Quiet("InsertProgress")
  /\ UNCHANGED <<now, mg, pg, ppo, tmo>>

RemoveProgress(e) ==
  /\ e \in page.progress
  /\ page' = [page EXCEPT !.progress = @ \ {e}]
  /\ last' = Quiet("RemoveProgress")
  /\ UNCHANGED <<now, mg, pg, ppo, tmo>>

\* The stopped-mutating timeout fires.
MutationStoppedTimeout ==
  /\ ppo.mutationStoppedTimeout # Null
  /\ LET e == ppo.mutationStoppedTimeout[1].element
         w == mutationStoppedHandler([World EXCEPT !.ppo.mutationStoppedTimeout = Null],
                                     ppo.mutationStoppedCallbacks, e, page, now)
     IN /\ ppo' = w.ppo
        /\ tmo' = w.tmo
        /\ last' = History("MutationStoppedTimeout", w, <<>>, FALSE)
  /\ UNCHANGED <<now, page, mg, pg>>

\* A restart of the group observer g keeps its timers within the bound.
RestartAllowed(g) == CanStart(sourceObserverStop(g))

\* A polling check of the progress observer's source observer (the pending
\* zero-delay check when `immediate`, a tick of an interval otherwise).
ProgressPoll(immediate) ==
  /\ IF immediate THEN pg.immediate > 0 ELSE pg.intervals > 0
  /\ LET g == IF immediate THEN [pg EXCEPT !.immediate = @ - 1] ELSE pg
         elements == TabProgressElementSourceGet(page)
         changed == elementsChanged(elements, g.previousElements)
     IN /\ changed => RestartAllowed(g)
        /\ pg' = intervalCallback(g, elements)
        /\ ppo' = wrapElementSourceGet(ppo, page, now)
        /\ last' = History("ProgressPoll", World, elements, changed)
  /\ UNCHANGED <<now, page, mg, tmo>>

\* PlaybackPositionProgressElementObserver.start() / stop() / restart()
ProgressStart ==
  /\ CanStart(pg)
  /\ pg' = groupStart(pg, TabProgressElementSourceGet(page))
  /\ ppo' = wrapElementSourceGet(ppo, page, now)
  /\ last' = Quiet("ProgressStart")
  /\ UNCHANGED <<now, page, mg, tmo>>

ProgressStop ==
  /\ pg' = groupStop(pg)
  /\ last' = Quiet("ProgressStop")
  /\ UNCHANGED <<now, page, mg, ppo, tmo>>

ProgressRestart ==
  /\ RestartAllowed(pg)
  /\ pg' = groupRestart(pg, TabProgressElementSourceGet(page))
  /\ ppo' = wrapElementSourceGet(ppo, page, now)
  /\ last' = Quiet("ProgressRestart")
  /\ UNCHANGED <<now, page, mg, tmo>>

\* ------------------------------------------------- the media elements

\* The page inserts a media element into the document, or removes it.
InsertMedia(e) ==
  /\ e \notin page.media
  /\ page' = [page EXCEPT !.media = @ \cup {e}]
  /\ last' = Quiet("InsertMedia")
  /\ UNCHANGED <<now, mg, pg, ppo, tmo>>

RemoveMedia(e) ==
  /\ e \in page.media
  /\ page' = [page EXCEPT !.media = @ \ {e}]
  /\ last' = Quiet("RemoveMedia")
  /\ UNCHANGED <<now, mg, pg, ppo, tmo>>

\* The media element e is paused, or resumed.
SetPaused(e, paused) ==
  /\ page.mediaAttr[e].paused # paused
  /\ page' = [page EXCEPT !.mediaAttr[e].paused = paused]
  /\ last' = Quiet("SetPaused")
  /\ UNCHANGED <<now, mg, pg, ppo, tmo>>

\* The page sets the metadata of navigator.mediaSession.
SetMetadata(metadata) ==
  /\ page.session.metadata # metadata
  /\ page' = [page EXCEPT !.session.metadata = metadata]
  /\ last' = Quiet("SetMetadata")
  /\ UNCHANGED <<now, mg, pg, ppo, tmo>>

\* One listener of the media observer's strategy called with (element, event).
invokeEventCallback(w, listener, p, when) ==
  LET w1 == [w EXCEPT !.calls = Append(@, [callback |-> listener.callback,
                                            element |-> listener.element,
                                            target |-> listener.element,
                                            attributeName |-> listener.eventName])]
  IN IF listener.callback = "onMediaElementUpdated"
     THEN onMediaElementUpdated(w1, listener.element, p, when)
     ELSE w1

RECURSIVE dispatchEvent(_, _, _, _)
dispatchEvent(w, listeners, p, when) ==
  IF listeners = <<>> THEN w
  ELSE dispatchEvent(invokeEventCallback(w, Head(listeners), p, when),
                     Tail(listeners), p, when)

\* The media element e fires the event `eventName`: the listeners attached to e for
\* it are called in the order they were attached.
MediaEvent(e, eventName) ==
  /\ \E i \in 1..Len(mg.listeners) :
        mg.listeners[i].element = e /\ mg.listeners[i].eventName = eventName
  /\ LET attached == SelectSeq(mg.listeners,
                       LAMBDA l : l.element = e /\ l.eventName = eventName)
         w == dispatchEvent(World, attached, page, now)
     IN /\ ppo' = w.ppo
        /\ tmo' = w.tmo
        /\ last' = History("MediaEvent", w, <<>>, FALSE)
  /\ UNCHANGED <<now, page, mg, pg>>

\* A polling check of the media observer's source observer.
MediaPoll(immediate) ==
  /\ IF immediate THEN mg.immediate > 0 ELSE mg.intervals > 0
  /\ LET g == IF immediate THEN [mg EXCEPT !.immediate = @ - 1] ELSE mg
         elements == TabMediaElementSourceGet(page)
         changed == elementsChanged(elements, g.previousElements)
     IN /\ changed => RestartAllowed(g)
        /\ mg' = intervalCallback(g, elements)
        /\ last' = History("MediaPoll", World, elements, changed)
  /\ UNCHANGED <<now, page, pg, ppo, tmo>>

\* ElementGroupObserver.start() / stop() / restart() / addEventListener(callback)
\* of a group observer of media elements.
GroupStart ==
  /\ CanStart(mg)
  /\ mg' = groupStart(mg, TabMediaElementSourceGet(page))
  /\ last' = Quiet("GroupStart")
  /\ UNCHANGED <<now, page, pg, ppo, tmo>>

GroupStop ==
  /\ mg' = groupStop(mg)
  /\ last' = Quiet("GroupStop")
  /\ UNCHANGED <<now, page, pg, ppo, tmo>>

GroupRestart ==
  /\ RestartAllowed(mg)
  /\ mg' = groupRestart(mg, TabMediaElementSourceGet(page))
  /\ last' = Quiet("GroupRestart")
  /\ UNCHANGED <<now, page, pg, ppo, tmo>>

GroupAddEventListener(callback) ==
  /\ \A i \in 1..Len(mg.eventCallbacks) : mg.eventCallbacks[i] # callback
  /\ mg' = addEventListener(mg, callback)
  /\ last' = Quiet("GroupAddEventListener")
  /\ UNCHANGED <<now, page, pg, ppo, tmo>>

\* ------------------------------------------------- TabMediaObserver's API

\* The fields stop() resets.
tabReset(t) ==
  [t EXCEPT !.observerState = "Idle",
            !.currentMediaElement = NULL,
            !.currentProgressElement = NULL,
            !.currentProgressElementMutating = "undefined",
            !.useEstimatedTrackStartTime = TRUE,
            !.estimatedTrackStartTime = NoNumber,
            !.previousMediaState = Null]

\* start(): a call while Observing returns at once.
TabStart ==
  /\ tmo.observerState = "Idle"
  /\ RestartAllowed(mg) /\ RestartAllowed(pg)
  /\ tmo' = [tmo EXCEPT !.observerState = "Observing"]
  /\ mg' = groupRestart(mg, TabMediaElementSourceGet(page))
  /\ pg' = groupRestart(pg, TabProgressElementSourceGet(page))
  /\ ppo' = wrapElementSourceGet(ppo, page, now)
  /\ last' = Quiet("TabStart")
  /\ UNCHANGED <<now, page>>

\* stop(): a call while Idle returns at once.
TabStop ==
  /\ tmo.observerState = "Observing"
  /\ tmo' = tabReset(tmo)
  /\ mg' = groupStop(mg)
  /\ pg' = groupStop(pg)
  /\ last' = Quiet("TabStop")
  /\ UNCHANGED <<now, page, ppo>>

\* restart(): stop(), then start().
TabRestart ==
  /\ tmo.observerState = "Observing"
  /\ LET g1 == groupStop(mg)
         g2 == groupStop(pg)
     IN /\ RestartAllowed(g1) /\ RestartAllowed(g2)
        /\ mg' = groupRestart(g1, TabMediaElementSourceGet(page))
        /\ pg' = groupRestart(g2, TabProgressElementSourceGet(page))
  /\ tmo' = [tabReset(tmo) EXCEPT !.observerState = "Observing"]
  /\ ppo' = wrapElementSourceGet(ppo, page, now)
  /\ last' = Quiet("TabRestart")
  /\ UNCHANGED <<now, page>>

\* ------------------------------------------------- initial states

NewPage ==
  [media |-> {}, progress |-> {},
   mediaAttr |-> [e \in MediaElements |->
                    [paused |-> FALSE, muted |-> FALSE, currentTime |-> 0,
                     duration |-> 3000000]],
   value |-> [e \in ProgressElements |-> 0],
   max |-> [e \in ProgressElements |-> 3000],
   session |-> [playbackState |-> "none", metadata |-> NULL]]

\* new PlaybackPositionProgressElementObserver(source): the group observer gets
\* #onMutated as its only callback.
NewProgressObserver(mutationCallbacks, mutationStoppedCallbacks) ==
  [state |-> [e \in ProgressElements |-> NoEntry], current |-> NULL,
   mutationCallbacks |-> mutationCallbacks,
   mutationStoppedCallbacks |-> mutationStoppedCallbacks,
   mutationStoppedTimeout |-> Null]

NewTabMediaObserver(eventCallbacks) ==
  [observerState |-> "Idle", currentMediaElement |-> NULL,
   currentProgressElement |-> NULL, currentProgressElementMutating |-> "undefined",
   useEstimatedTrackStartTime |-> TRUE, estimatedTrackStartTime |-> NoNumber,
   previousMediaState |-> Null, eventCallbacks |-> eventCallbacks]

\* A progress observer on its own, with one listener of each kind registered, on a
\* page whose progress elements are a subset of `elements`.
InitProgressObserver(elements) ==
  /\ now = 0
  /\ page \in {[NewPage EXCEPT !.progress = s] : s \in SUBSET elements}
  /\ mg = NewGroup(MediaEventNames)
  /\ pg = addEventListener(NewGroup(MutationEventNames), "onMutated")
  /\ ppo = NewProgressObserver(<<"listener">>, <<"stoppedListener">>)
  /\ tmo = NewTabMediaObserver(<<>>)
  /\ last = Quiet("Init")

\* The attribute writes of the page's scripts, and the scripts of up to n writes.
Writes(elements, values) ==
  [target : elements, attributeName : {"value"}, value : values]

Scripts(writes, n) == UNION {[1..k -> writes] : k \in 1..n}

\* The steps of a progress observer on its own, on a page whose scripts write up to
\* n of `values` to the value attributes of `elements`, insert and remove the
\* elements `dyn`, and on a clock that runs over `instants`.
NextProgressObserver(elements, values, dyn, instants, n) ==
  \/ \E t \in instants : Tick(t)
  \/ \E writes \in Scripts(Writes(elements, values), n) : Mutate(writes)
  \/ \E e \in dyn : InsertProgress(e)
  \/ \E e \in dyn : RemoveProgress(e)
  \/ MutationStoppedTimeout
  \/ \E immediate \in BOOLEAN : ProgressPoll(immediate)
  \/ ProgressStart
  \/ ProgressStop
  \/ ProgressRestart

\* One progress element, observed with values and instants around the thresholds
\* of the rate test.
InitRate == InitProgressObserver({"p1"})
NextRate == NextProgressObserver({"p1"}, {0, 1, 1000}, {"p1"}, Clock, MaxRecords)
SpecRate == InitRate /\ [][NextRate]_vars

\* Two progress elements, each of which can pass the rate test; p2 stays where it
\* is, p1 comes and goes; one write per script.
InitLock == InitProgressObserver({"p1", "p2"})
NextLock == NextProgressObserver({"p1", "p2"}, {0, 1000}, {"p1"}, WholeSeconds, 1)
SpecLock == InitLock /\ [][NextLock]_vars

\* A group observer of media elements on its own, with callbacks registered by
\* addEventListener.
InitGroup ==
  /\ now = 0
  /\ page \in {[NewPage EXCEPT !.media = s] : s \in SUBSET MediaElements}
  /\ mg = NewGroup(MediaEventNames)
  /\ pg = NewGroup(MutationEventNames)
  /\ ppo = NewProgressObserver(<<>>, <<>>)
  /\ tmo = NewTabMediaObserver(<<>>)
  /\ last = Quiet("Init")

NextGroup ==
  \/ \E e \in MediaElements : InsertMedia(e)
  \/ \E e \in MediaElements : RemoveMedia(e)
  \/ \E e \in MediaElements, eventName \in {"play", "timeupdate"} : MediaEvent(e, eventName)
  \/ \E immediate \in BOOLEAN : MediaPoll(immediate)
  \/ GroupStart
  \/ GroupStop
  \/ GroupRestart
  \/ \E callback \in {"a", "b"} : GroupAddEventListener(callback)

SpecGroup == InitGroup /\ [][NextGroup]_vars

\* The content script's TabMediaObserver with its listener (init() of the content
\* script), on a page with at most one media element and one progress element.
Init ==
  /\ now = 0
  /\ page \in {[NewPage EXCEPT !.media = m, !.progress = {"p1"}] : m \in {{"m1"}}}
  /\ mg = addEventListener(NewGroup(MediaEventNames), "onMediaElementUpdated")
  /\ pg = addEventListener(NewGroup(MutationEventNames), "onMutated")
  /\ ppo = NewProgressObserver(<<"onProgressElementMutated">>,
                               <<"onProgressElementStoppedMutating">>)
  /\ tmo = NewTabMediaObserver(<<"onMediaUpdated">>)
  /\ last = Quiet("Init")

Next ==
  \/ \E t \in WholeSeconds : Tick(t)
  \/ \E e \in {"m1"}, paused \in BOOLEAN : SetPaused(e, paused)
  \/ \E metadata \in {NULL, "track"} : SetMetadata(metadata)
  \/ \E e \in {"m1"}, eventName \in {"timeupdate"} : MediaEvent(e, eventName)
  \/ \E writes \in Scripts(Writes({"p1"}, {0, 1000}), 1) : Mutate(writes)
  \/ MutationStoppedTimeout
  \/ \E immediate \in BOOLEAN : MediaPoll(immediate)
  \/ \E immediate \in BOOLEAN : ProgressPoll(immediate)
  \/ TabStart
  \/ TabStop
  \/ TabRestart

Spec == Init /\ [][Next]_vars

\* The TabMediaObserver on a page whose media elements come and go.
InitActive ==
  /\ now = 0
  /\ page \in {[NewPage EXCEPT !.media = m] : m \in SUBSET MediaElements}
  /\ mg = addEventListener(NewGroup(MediaEventNames), "onMediaElementUpdated")
  /\ pg = addEventListener(NewGroup(MutationEventNames), "onMutated")
  /\ ppo = NewProgressObserver(<<"onProgressElementMutated">>,
                               <<"onProgressElementStoppedMutating">>)
  /\ tmo = NewTabMediaObserver(<<"onMediaUpdated">>)
  /\ last = Quiet("Init")

NextActive ==
  \/ \E e \in MediaElements : InsertMedia(e)
  \/ \E e \in MediaElements : RemoveMedia(e)
  \/ \E e \in MediaElements : MediaEvent(e, "timeupdate")
  \/ \E immediate \in BOOLEAN : MediaPoll(immediate)
  \/ TabStart
  \/ TabStop

SpecActive == InitActive /\ [][NextActive]_vars

\* One progress element whose value attribute is also set to text that is not a
\* number.
InitMalformed == InitProgressObserver({"p1"})
NextMalformed == NextProgressObserver({"p1"}, {0, 1000, NaN}, {"p1"}, WholeSeconds, 1)
SpecMalformed == InitMalformed /\ [][NextMalformed]_vars

\* The whole observer on a page without media elements whose progress bar has a
\* max that is positive or negative; a script writes up to two values.
InitInconsistent ==
  /\ now = 0
  /\ page \in {[NewPage EXCEPT !.progress = {"p1"}, !.max["p1"] = max] :
                 max \in {3000, 0 - 3000}}
  /\ mg = addEventListener(NewGroup(MediaEventNames), "onMediaElementUpdated")
  /\ pg = addEventListener(NewGroup(MutationEventNames), "onMutated")
  /\ ppo = NewProgressObserver(<<"onProgressElementMutated">>,
                               <<"onProgressElementStoppedMutating">>)
  /\ tmo = NewTabMediaObserver(<<"onMediaUpdated">>)
  /\ last = Quiet("Init")

NextInconsistent ==
  \/ \E t \in WholeSeconds : Tick(t)
  \/ \E writes \in Scripts(Writes({"p1"}, {0, 1000}), 2) : Mutate(writes)
  \/ MutationStoppedTimeout
  \/ \E immediate \in BOOLEAN : ProgressPoll(immediate)
  \/ TabStart
  \/ TabStop

SpecInconsistent == InitInconsistent /\ [][NextInconsistent]_vars

\* ------------------------------------------------- determineChanges on its own

\* The sources of a playback state.
PlaybackStateSource ==
  {"MediaElement", "ProgressElementMilliseconds", "ProgressElementSeconds", "Estimated"}

\* Media states: positions around the tolerances of the sources, with and without
\* a duration that clamps the live position, paused and playing.
TabMediaStates(sources, positions, timestamps) ==
  [mediaMetadata : {NULL, "track"},
   playbackState : [source : sources, position : positions,
                    duration : {NoNumber, 1500}, playing : BOOLEAN,
                    positionTimestamp : timestamps]]

\* An observer that holds a previous state, or none.
InitState ==
  /\ now = 1000
  /\ page = NewPage
  /\ mg = NewGroup(MediaEventNames)
  /\ pg = NewGroup(MutationEventNames)
  /\ ppo = NewProgressObserver(<<>>, <<>>)
  /\ tmo \in {[NewTabMediaObserver(<<>>) EXCEPT !.previousMediaState = previous] :
                previous \in {Null} \cup
                  {Some(st) : st \in TabMediaStates({"MediaElement", "ProgressElementSeconds"},
                                                    {0, 1000}, {1000})}}
  /\ last = Quiet("Init")

\* state.determineChanges(this.previousMediaState) at Date.now().
DetermineChanges(state) ==
  /\ last' = [op |-> "determineChanges", state |-> state,
              result |-> determineChanges(state, tmo.previousMediaState, now)]
  /\ UNCHANGED <<now, page, mg, pg, ppo, tmo>>

NextState ==
  \E state \in TabMediaStates(PlaybackStateSource,
                               {0, 99, 100, 249, 250, 999, 1000}, {0, 1000}) :
    DetermineChanges(state)

SpecState == InitState /\ [][NextState]_vars

\* ---------------------------------------------------- PlaybackState on its own

\* The arguments of a constructor call: positions below, inside and beyond the
\* duration; no duration, NaN, zero, a positive and a negative duration; a
\* negative, a zero and a positive timestamp.
ConstructorArguments ==
  [position : {0, 500, 2000}, duration : {NoNumber, NaN, 0, 1500, 0 - 1500},
   playing : BOOLEAN, positionTimestamp : {0 - 1000, 0, 1000}]

\* The instants a live position is asked for.
Whens == {0 - 1000, 0, 1000, 2000, 3000}

\* The outcome of a constructor call: the arguments, the object unless the
\* constructor threw, and the live positions asked of it last and before that.
Constructed(op, args, value) ==
  [op |-> op, args |-> args, value |-> value,
   when |-> NoNumber, result |-> Null, before |-> Null]

InitPlayback ==
  /\ now = 0
  /\ page = NewPage
  /\ mg = NewGroup(MediaEventNames)
  /\ pg = NewGroup(MutationEventNames)
  /\ ppo = NewProgressObserver(<<>>, <<>>)
  /\ tmo = NewTabMediaObserver(<<>>)
  /\ last = Constructed("Init", [position |-> 0, duration |-> NoNumber,
                                 playing |-> FALSE, positionTimestamp |-> 0], Null)

\* new PlaybackState(position, duration, playing, positionTimestamp)
NewPlaybackState(args) ==
  /\ last' = Constructed("new PlaybackState", args,
               IF constructorThrows(args.duration, args.positionTimestamp) THEN Null
               ELSE Some(args))
  /\ UNCHANGED <<now, page, mg, pg, ppo, tmo>>

\* new TabMediaPlaybackState(source, position, duration, playing, positionTimestamp):
\* the constructor of PlaybackState, then the source.
NewTabMediaPlaybackState(source, args) ==
  /\ last' = Constructed("new TabMediaPlaybackState", args,
               IF constructorThrows(args.duration, args.positionTimestamp) THEN Null
               ELSE Some(TabMediaPlaybackState(source, args.position, args.duration,
                                               args.playing, args.positionTimestamp)))
  /\ UNCHANGED <<now, page, mg, pg, ppo, tmo>>

\* livePosition(when) on the object constructed last.
LivePosition(when) ==
  /\ last.value # Null
  /\ last' = [last EXCEPT
       !.op = "livePosition",
       !.when = when,
       !.result = livePositionCall(last.value[1], when),
       !.before = IF last.op = "livePosition"
                  THEN Some([when |-> last.when, result |-> last.result])
                  ELSE Null]
  /\ UNCHANGED <<now, page, mg, pg, ppo, tmo>>

NextPlayback ==
  \/ \E args \in ConstructorArguments : NewPlaybackState(args)
  \/ \E args \in ConstructorArguments : NewTabMediaPlaybackState("MediaElement", args)
  \/ \E when \in Whens : LivePosition(when)

SpecPlayback == InitPlayback /\ [][NextPlayback]_vars

\* ------------------------------------------------ #currentMediaState on its own

\* What the media session reports.
MediaSessionPlaybackStates == {"none", "paused", "playing"}

\* The pages #currentMediaState can read: a media element that is paused or not,
\* muted or not, with or without a current time and a duration; a progress bar
\* with or without a value and a max; a media session in each of its states.
FusePages ==
  {[NewPage EXCEPT
      !.media = {"m1"}, !.progress = {"p1"},
      !.mediaAttr["m1"] = [paused |-> paused, muted |-> muted,
                           currentTime |-> currentTime, duration |-> duration],
      !.value["p1"] = value, !.max["p1"] = max,
      !.session.playbackState = playbackState] :
     paused \in BOOLEAN, muted \in BOOLEAN,
     currentTime \in {NaN, 1000000}, duration \in {NaN, 3000000},
     value \in {NoNumber, 2}, max \in {NoNumber, 5},
     playbackState \in MediaSessionPlaybackStates}

\* The progress observer with an entry for the progress bar, of either precision.
FuseProgressObservers ==
  {[NewProgressObserver(<<"listener">>, <<"stoppedListener">>) EXCEPT
      !.state["p1"] = [FreshEntry("p1", 0, 0) EXCEPT !.valuePrecision = valuePrecision]] :
     valuePrecision \in {Seconds, Milliseconds}}

\* A started observer: with or without a current media element; without a progress
\* element, or with one that was last seen mutating or not; with or without the
\* estimate.
FuseObservers ==
  {[NewTabMediaObserver(<<"listener">>) EXCEPT
      !.observerState = "Observing",
      !.currentMediaElement = media,
      !.currentProgressElement = progress[1],
      !.currentProgressElementMutating = progress[2],
      !.useEstimatedTrackStartTime = estimate] :
     media \in {NULL, "m1"},
     progress \in {<<NULL, "undefined">>, <<"p1", "true">>, <<"p1", "false">>},
     estimate \in BOOLEAN}

InitFuse ==
  /\ now = 1000
  /\ page \in FusePages
  /\ mg = NewGroup(MediaEventNames)
  /\ pg = NewGroup(MutationEventNames)
  /\ ppo \in FuseProgressObservers
  /\ tmo \in FuseObservers
  /\ last = [op |-> "Init", state |-> Null]

\* this.#currentMediaState()
CurrentMediaState ==
  LET fused == currentMediaState(tmo, ppo, page, now)
  IN /\ tmo' = fused.tmo
     /\ last' = [op |-> "currentMediaState", state |-> fused.state]
     /\ UNCHANGED <<now, page, mg, pg, ppo>>

NextFuse == CurrentMediaState

SpecFuse == InitFuse /\ [][NextFuse]_vars

\* --------------------------------------- the handlers of TabMediaObserver alone

\* The pages the handlers read: a media element that is paused or not and has a
\* duration or not, a progress bar with or without a value and a max, a media
\* session that reports nothing or "playing", with or without metadata.
UpdatePages ==
  {[NewPage EXCEPT
      !.media = {"m1"}, !.progress = {"p1"},
      !.mediaAttr["m1"].paused = paused,
      !.mediaAttr["m1"].duration = duration,
      !.value["p1"] = value, !.max["p1"] = max,
      !.session = [playbackState |-> playbackState, metadata |-> metadata]] :
     paused \in BOOLEAN, duration \in {NaN, 3000000},
     value \in {NoNumber, 2}, max \in {NoNumber, 5},
     playbackState \in {"none", "playing"}, metadata \in {NULL, "track"}}

\* A started observer with one listener, before any element has reported.
InitUpdate ==
  /\ now = 1000
  /\ page \in UpdatePages
  /\ mg = NewGroup(MediaEventNames)
  /\ pg = NewGroup(MutationEventNames)
  /\ ppo \in FuseProgressObservers
  /\ tmo = [NewTabMediaObserver(<<"listener">>) EXCEPT !.observerState = "Observing"]
  /\ last = Quiet("Init")

\* The media observer calls #onMediaElementUpdated(element).
OnMediaElementUpdated(element) ==
  LET w == onMediaElementUpdated(World, element, page, now)
  IN /\ tmo' = w.tmo
     /\ last' = History("onMediaElementUpdated", w, <<>>, FALSE)
     /\ UNCHANGED <<now, page, mg, pg, ppo>>

\* The progress observer calls #onProgressElementMutated(element).
OnProgressElementMutated(element) ==
  LET w == onProgressElementMutated(World, element, page, now)
  IN /\ tmo' = w.tmo
     /\ last' = History("onProgressElementMutated", w, <<>>, FALSE)
     /\ UNCHANGED <<now, page, mg, pg, ppo>>

\* The progress observer calls #onProgressElementStoppedMutating(element).
OnProgressElementStoppedMutating(element) ==
  LET w == onProgressElementStoppedMutating(World, element, page, now)
  IN /\ tmo' = w.tmo
     /\ last' = History("onProgressElementStoppedMutating", w, <<>>, FALSE)
     /\ UNCHANGED <<now, page, mg, pg, ppo>>

NextUpdate ==
  \/ \E t \in {2000} : Tick(t)
  \/ OnMediaElementUpdated("m1")
  \/ OnProgressElementMutated("p1")
  \/ OnProgressElementStoppedMutating("p1")

SpecUpdate == InitUpdate /\ [][NextUpdate]_vars

\* A media element whose attributes change under a started observer: the element
\* fires its event after each change, and the listener the media observer attached
\* calls #onMediaElementUpdated on the page as it is then.
InitResume ==
  /\ now = 0
  /\ page = [NewPage EXCEPT !.media = {"m1"}, !.mediaAttr["m1"].paused = TRUE]
  /\ mg = NewGroup(MediaEventNames)
  /\ pg = NewGroup(MutationEventNames)
  /\ ppo = NewProgressObserver(<<>>, <<>>)
  /\ tmo = [NewTabMediaObserver(<<"listener">>) EXCEPT !.observerState = "Observing"]
  /\ last = Quiet("Init")

\* The page p has been changed and the element fires the event.
MediaElementChanged(element, p) ==
  LET w == onMediaElementUpdated(World, element, p, now)
  IN /\ page' = p
     /\ tmo' = w.tmo
     /\ last' = History("onMediaElementUpdated", w, <<>>, FALSE)
     /\ UNCHANGED <<now, mg, pg, ppo>>

\* durationchange: the duration is unknown (NaN) while a source loads.
DurationChange(element, duration) ==
  /\ page.mediaAttr[element].duration # duration
  /\ MediaElementChanged(element, [page EXCEPT !.mediaAttr[element].duration = duration])

\* play and pause
PausedChange(element, paused) ==
  /\ page.mediaAttr[element].paused # paused
  /\ MediaElementChanged(element, [page EXCEPT !.mediaAttr[element].paused = paused])

\* timeupdate
TimeUpdate(element, currentTime) ==
  /\ page.mediaAttr[element].currentTime # currentTime
  /\ MediaElementChanged(element, [page EXCEPT !.mediaAttr[element].currentTime = currentTime])

NextResume ==
  \/ \E t \in WholeSeconds : Tick(t)
  \/ \E duration \in {NaN, 3000000} : DurationChange("m1", duration)
  \/ \E paused \in BOOLEAN : PausedChange("m1", paused)
  \/ \E currentTime \in {0, 1000000} : TimeUpdate("m1", currentTime)
  \/ \E metadata \in {NULL, "track"} : SetMetadata(metadata)

SpecResume == InitResume /\ [][NextResume]_vars

\* ------------------------------------------------- resource links

\* The document: parentNode of the nodes 1..10 in document order (1 is the body).
\* The nodes that can hold an anchor are 6 and 7, siblings under the container 5,
\* and 4 and 10, three levels below the body before and after the container.
parentNode == <<0, 1, 2, 3, 1, 5, 5, 1, 8, 9>>
AnchorNodes == <<4, 6, 7, 10>>

\* Texts are sequences of characters.
Trim(text) ==
  LET inked == {i \in 1..Len(text) : text[i] # " "}
  IN IF inked = {} THEN <<>>
     ELSE SubSeq(text, CHOOSE i \in inked : \A j \in inked : i <= j,
                       CHOOSE i \in inked : \A j \in inked : i >= j)

toUpperCase(text) ==
  [i \in 1..Len(text) |->
     CASE text[i] = "a" -> "A" [] text[i] = "b" -> "B" [] text[i] = "c" -> "C"
       [] text[i] = "l" -> "L" [] text[i] = "t" -> "T" [] text[i] = "x" -> "X"
       [] OTHER -> text[i]]

\* text.includes(part)
Includes(text, part) ==
  \E i \in 1..(Len(text) + 1) :
    /\ i + Len(part) - 1 <= Len(text)
    /\ SubSeq(text, i, i + Len(part) - 1) = part

\* No anchor at a node; the href of the anchor at a node is the node.
NoAnchor == [kind |-> "none", text |-> <<>>]

\* The patterns of a domain without an entry, and Constants.URL_MATCHES: one entry
\* without a track pattern and one with all three (the other entries have all three).
NoPatterns == [track |-> FALSE, album |-> FALSE, artist |-> FALSE]
URL_MATCHES ==
  [reverseDomain \in {"de.amazon.music", "com.tidal.listen"} |->
     IF reverseDomain = "de.amazon.music"
     THEN [track |-> FALSE, album |-> TRUE, artist |-> TRUE]
     ELSE [track |-> TRUE, album |-> TRUE, artist |-> TRUE]]

\* A lookup that falls back to the patterns of another domain.
linkPatternsOrDefault(reverseDomain) ==
  IF reverseDomain \in DOMAIN URL_MATCHES THEN URL_MATCHES[reverseDomain]
  ELSE URL_MATCHES["com.tidal.listen"]

\* The pattern set #handleUpdate passes for a reverse domain.
linkPatternsFor(reverseDomain) ==
  IF reverseDomain \in DOMAIN URL_MATCHES THEN URL_MATCHES[reverseDomain] ELSE NoPatterns

\* findDistanceFromAncestor(node, ancestor), for an inclusive ancestor of the node.
RECURSIVE findDistanceFromAncestor(_, _)
findDistanceFromAncestor(node, ancestor) ==
  IF node = ancestor THEN 0
  ELSE 1 + findDistanceFromAncestor(parentNode[node], ancestor)

RECURSIVE InclusiveAncestors(_)
InclusiveAncestors(node) ==
  IF node = 0 THEN {} ELSE {node} \cup InclusiveAncestors(parentNode[node])

\* findClosestAncestor(a, b): the commonAncestorContainer of a range between them.
findClosestAncestor(a, b) ==
  LET common == InclusiveAncestors(a) \cap InclusiveAncestors(b)
  IN CHOOSE c \in common :
       \A d \in common : findDistanceFromAncestor(a, c) <= findDistanceFromAncestor(a, d)

\* The loop of findNodeWithClosestAncestor: a candidate replaces the closest one
\* only when it is strictly closer.
RECURSIVE closestCandidate(_, _, _)
closestCandidate(node, candidates, closest) ==
  IF candidates = <<>> THEN closest
  ELSE LET candidate == Head(candidates)
           ancestor == findClosestAncestor(node, candidate)
           d1 == findDistanceFromAncestor(node, ancestor)
           d2 == findDistanceFromAncestor(candidate, ancestor)
           min == Min(d1, d2)
           max == Max(d1, d2)
       IN closestCandidate(node, Tail(candidates),
            IF d1 = 0 \/ d2 = 0 THEN closest
            ELSE IF \/ closest = Null
                    \/ min < closest[1].minDepth
                    \/ min = closest[1].minDepth /\ max < closest[1].maxDepth
                 THEN Some([node |-> candidate, ancestor |-> ancestor,
                            minDepth |-> min, maxDepth |-> max])
                 ELSE closest)

findNodeWithClosestAncestor(node, candidates) == closestCandidate(node, candidates, Null)

\* The loop of findPairsWithClosestAncestor over the rest of largestSet.
RECURSIVE closestPairs(_, _, _, _)
closestPairs(largestSet, smallestSet, match, additionalEqualMatches) ==
  IF largestSet = <<>>
  THEN IF match # Null THEN match \o additionalEqualMatches ELSE <<>>
  ELSE LET first == Head(largestSet)
           result == findNodeWithClosestAncestor(first, smallestSet)
       IN IF result = Null
          THEN closestPairs(Tail(largestSet), smallestSet, match, additionalEqualMatches)
          ELSE
            LET second == result[1].node
                ancestor == result[1].ancestor
                d1 == findDistanceFromAncestor(first, ancestor)
                d2 == findDistanceFromAncestor(second, ancestor)
                min == Min(d1, d2)
                max == Max(d1, d2)
                nextMatch == [first |-> [node |-> first, depth |-> d1],
                              second |-> [node |-> second, depth |-> d2],
                              ancestor |-> ancestor, minDepth |-> min, maxDepth |-> max]
            IN IF d1 = 0 \/ d2 = 0
               THEN closestPairs(Tail(largestSet), smallestSet, match, additionalEqualMatches)
               ELSE IF match = Null
               THEN closestPairs(Tail(largestSet), smallestSet, Some(nextMatch), <<>>)
               ELSE IF \/ min < match[1].minDepth
                       \/ min = match[1].minDepth /\ max <= match[1].maxDepth
               THEN closestPairs(Tail(largestSet), smallestSet, match,
                                 Append(additionalEqualMatches, nextMatch))
               ELSE closestPairs(Tail(largestSet), smallestSet, match, additionalEqualMatches)

findPairsWithClosestAncestor(largestSet, smallestSet) ==
  closestPairs(largestSet, smallestSet, Null, <<>>)

\* The text test of findResourceLinks, on the trimmed texts.
textMatches(text, innerText, caseInsensitive, innerTextIncludes) ==
  IF innerTextIncludes
  THEN \/ Includes(innerText, text)
       \/ caseInsensitive /\ Includes(toUpperCase(innerText), toUpperCase(text))
  ELSE \/ text = innerText
       \/ caseInsensitive /\ toUpperCase(text) = toUpperCase(innerText)

\* findResourceLinks(pathPattern, innerText, caseInsensitive, innerTextIncludes):
\* the anchors in document order; the pathname of an anchor matches the pattern of
\* its kind only.
findResourceLinks(kind, innerText, caseInsensitive, innerTextIncludes, anchors) ==
  SelectSeq(AnchorNodes, LAMBDA n :
    /\ anchors[n].kind = kind
    /\ Len(Trim(anchors[n].text)) # 0
    /\ textMatches(Trim(anchors[n].text), Trim(innerText), caseInsensitive,
                   innerTextIncludes))

\* linkElements of findBestMatchingResourceLinks: the candidates of each type, none
\* for a type that is not in the map.
linkElements(metadata, linkPatterns, anchors) ==
  LET albums == findResourceLinks("album", metadata.album, FALSE, FALSE, anchors)
      titled == findResourceLinks("album", metadata.title, FALSE, FALSE, anchors)
      upper == findResourceLinks("album", metadata.album, TRUE, FALSE, anchors)
  IN [Track |-> IF linkPatterns.track
                THEN findResourceLinks("track", metadata.title, FALSE, FALSE, anchors)
                ELSE <<>>,
      Album |-> IF ~linkPatterns.album THEN <<>>
                ELSE IF albums # <<>> THEN albums
                ELSE IF titled # <<>> THEN titled
                ELSE upper,
      Artist |-> IF linkPatterns.artist
                 THEN findResourceLinks("artist", metadata.artist, TRUE, TRUE, anchors)
                 ELSE <<>>]

\* ancestorPairs before the sort.
ancestorPairs(elements) ==
  LET entry(firstType, secondType) ==
        [pairs |-> findPairsWithClosestAncestor(elements[firstType], elements[secondType]),
         firstType |-> firstType, secondType |-> secondType]
      all == <<entry("Artist", "Album"), entry("Album", "Track"), entry("Artist", "Track")>>
  IN SelectSeq(all, LAMBDA e :
       elements[e.firstType] # <<>> /\ elements[e.secondType] # <<>> /\ e.pairs # <<>>)

\* The comparator of the sort, and the stable sort by it.
comparePairs(a, b) ==
  IF a.pairs[1].minDepth < b.pairs[1].minDepth THEN 0 - 1
  ELSE IF a.pairs[1].minDepth = b.pairs[1].minDepth
  THEN (a.pairs[1].maxDepth - a.pairs[1].minDepth)
         - (b.pairs[1].maxDepth - b.pairs[1].minDepth)
  ELSE 1

RECURSIVE sortPairs(_)
sortPairs(pairs) ==
  IF pairs = <<>> THEN <<>>
  ELSE LET sorted == sortPairs(SubSeq(pairs, 1, Len(pairs) - 1))
           x == pairs[Len(pairs)]
           k == Cardinality({i \in 1..Len(sorted) :
                               \E j \in i..Len(sorted) : comparePairs(sorted[j], x) <= 0})
       IN SubSeq(sorted, 1, k) \o <<x>> \o SubSeq(sorted, k + 1, Len(sorted))

\* urls.get(type).set(text, href) unless the type already has the text.
setUrl(urls, type, text, href) ==
  IF \E i \in 1..Len(urls[type]) : urls[type][i].text = text THEN urls
  ELSE [urls EXCEPT ![type] = Append(@, [text |-> text, href |-> href])]

\* The two loops that fill urls from the sorted pairs.
RECURSIVE setPairUrls(_, _, _, _)
setPairUrls(urls, pair, elements, anchors) ==
  IF elements = <<>> THEN urls
  ELSE LET element == Head(elements)
           u1 == setUrl(urls, pair.firstType, anchors[element.first.node].text,
                        element.first.node)
           u2 == setUrl(u1, pair.secondType, anchors[element.second.node].text,
                        element.second.node)
       IN setPairUrls(u2, pair, Tail(elements), anchors)

RECURSIVE setAllPairUrls(_, _, _)
setAllPairUrls(urls, pairs, anchors) ==
  IF pairs = <<>> THEN urls
  ELSE setAllPairUrls(setPairUrls(urls, Head(pairs), Head(pairs).pairs, anchors),
                      Tail(pairs), anchors)

\* The fallback for one type: every candidate whose trimmed text the metadata text
\* includes.
RECURSIVE setFallbackUrls(_, _, _, _, _)
setFallbackUrls(urls, type, text, candidates, anchors) ==
  IF candidates = <<>> THEN urls
  ELSE LET innerText == Trim(anchors[Head(candidates)].text)
       IN setFallbackUrls(IF Includes(text, innerText)
                          THEN setUrl(urls, type, innerText, Head(candidates))
                          ELSE urls,
                          type, text, Tail(candidates), anchors)

\* findBestMatchingResourceLinks(metadata, linkPatterns): for each type the entries
\* [text, href] in the order they were set; a type without entries is not in the map.
findBestMatchingResourceLinks(metadata, linkPatterns, anchors) ==
  LET none == [Track |-> <<>>, Album |-> <<>>, Artist |-> <<>>]
      elements == linkElements(metadata, linkPatterns, anchors)
      paired == setAllPairUrls(none, sortPairs(ancestorPairs(elements)), anchors)
      fallback(urls, type, text) ==
        IF urls[type] = <<>> /\ elements[type] # <<>>
        THEN setFallbackUrls(urls, type, text, elements[type], anchors)
        ELSE urls
  IN IF ~linkPatterns.track /\ ~linkPatterns.album /\ ~linkPatterns.artist THEN none
     ELSE fallback(fallback(fallback(paired, "Track", metadata.title),
                            "Album", metadata.album),
                   "Artist", metadata.artist)

\* The metadata of the track that plays, and the pages: every anchor node without
\* an anchor or with an anchor of one kind and one of its texts, on a domain with
\* and without an entry in the table.
LinkMetadata == [title |-> <<"t">>, artist |-> <<"a", "b">>, album |-> <<"l">>]

LinkAnchors ==
  {NoAnchor} \cup
  [kind : {"track"}, text : {<<"t">>}] \cup
  [kind : {"album"}, text : {<<"l">>, <<"t">>}] \cup
  [kind : {"artist"}, text : {<<"a">>, <<"a", "b">>, <<"a", "b", "c">>, <<"B">>, <<" ", "a">>}]

InitLinks ==
  /\ now = 0
  /\ page \in [anchors : [{4, 6, 7, 10} -> LinkAnchors],
               reverseDomain : {"de.amazon.music", "com.tidal.listen", "org.example"}]
  /\ mg = NewGroup(MediaEventNames)
  /\ pg = NewGroup(MutationEventNames)
  /\ ppo = NewProgressObserver(<<>>, <<>>)
  /\ tmo = NewTabMediaObserver(<<>>)
  /\ last = [op |-> "Init", elements |-> <<>>, urls |-> <<>>]

\* findBestMatchingResourceLinks(state.mediaMetadata, patterns of the domain), as
\* #handleUpdate calls it.
FindBestMatchingResourceLinks ==
  LET linkPatterns == linkPatternsFor(page.reverseDomain)
  IN /\ last' = [op |-> "findBestMatchingResourceLinks",
                 elements |-> linkElements(LinkMetadata, linkPatterns, page.anchors),
                 urls |-> findBestMatchingResourceLinks(LinkMetadata, linkPatterns,
                                                        page.anchors)]
     /\ UNCHANGED <<now, page, mg, pg, ppo, tmo>>

NextLinks == FindBestMatchingResourceLinks

SpecLinks == InitLinks /\ [][NextLinks]_vars

\* ------------------------------------------------- the wire record

\* x / 1000 of a whole number of milliseconds: seconds and thousandths; and the
\* product of such a number with 1000, to the whole millisecond.
divideBy1000(millis) == [seconds |-> millis \div 1000, thousandths |-> millis % 1000]
times1000(secs) == secs.seconds * 1000 + secs.thousandths

\* serialize(url, faviconUrl, resourceLinks) of a state on a page with the given
\* document.title: the metadata and the playback state of the record. A field that
\* is undefined is Null.
serialize(state, documentTitle) ==
  [metadata |->
     IF state.mediaMetadata # Null
     THEN Some([title |-> Some(state.mediaMetadata[1].title),
                artist |-> IF state.mediaMetadata[1].artist # ""
                           THEN Some(state.mediaMetadata[1].artist) ELSE Null,
                album |-> IF state.mediaMetadata[1].album # ""
                          THEN Some(state.mediaMetadata[1].album) ELSE Null,
                duration |-> IF Truthy(state.playbackState.duration)
                             THEN Some(divideBy1000(state.playbackState.duration))
                             ELSE Null])
     ELSE IF documentTitle # ""
     THEN Some([title |-> Some(documentTitle), artist |-> Null, album |-> Null,
                duration |-> Null])
     ELSE Null,
   playbackState |->
     [position |-> divideBy1000(state.playbackState.position),
      positionTimestamp |-> [time |-> state.playbackState.positionTimestamp],
      playing |-> state.playbackState.playing]]

\* The PlaybackState that tabMediaStateToString builds from the record.
playbackStateOfRecord(record) ==
  [position |-> times1000(record.playbackState.position),
   duration |-> IF record.metadata # Null /\ record.metadata[1].duration # Null
                   /\ times1000(record.metadata[1].duration[1]) # 0
                THEN times1000(record.metadata[1].duration[1]) ELSE NoNumber,
   playing |-> record.playbackState.playing,
   positionTimestamp |-> record.playbackState.positionTimestamp.time]

\* The states that are serialized: with and without metadata, with empty and
\* non-empty artist and album, with and without a duration, on pages with and
\* without a document title.
SerializedStates ==
  [mediaMetadata : {Null} \cup {Some(m) : m \in [title : {"", "Song"}, artist : {"", "Band"},
                                                 album : {"", "Album"}]},
   playbackState : [source : {"MediaElement"}, position : {0, 1, 1001, 61500},
                    duration : {NoNumber, 180001}, playing : BOOLEAN,
                    positionTimestamp : {0, 1000}]]

InitSerialize ==
  /\ now = 1000
  /\ page \in [state : SerializedStates, documentTitle : {"", "Page"}]
  /\ mg = NewGroup(MediaEventNames)
  /\ pg = NewGroup(MutationEventNames)
  /\ ppo = NewProgressObserver(<<>>, <<>>)
  /\ tmo = NewTabMediaObserver(<<>>)
  /\ last = [op |-> "Init", record |-> Null, playbackState |-> Null]

\* state.serialize(...) in the tab, tabMediaStateToString(record) in the background.
Serialize ==
  LET record == serialize(page.state, page.documentTitle)
  IN /\ last' = [op |-> "serialize", record |-> Some(record),
                 playbackState |-> Some(playbackStateOfRecord(record))]
     /\ UNCHANGED <<now, page, mg, pg, ppo, tmo>>

NextSerialize == Serialize

SpecSerialize == InitSerialize /\ [][NextSerialize]_vars

\* ------------------------------------------------- the background relay

\* The tabs of the browser, and the popups that may be connected at once.
TabIds == {1, 2}
MaxPopups == 1
\* The MediaChanged messages of content scripts that may be in flight at once.
MaxInFlight == 1

\* No entry of the tabs map, and the entry registerTab creates (tabs.set(id, null)).
NoTab == [has |-> FALSE, value |-> Null]
NullTab == [has |-> TRUE, value |-> Null]

\* The module-level state of the background script, as the variable tmo holds it:
\* the tabs map and the number of connected popups.
tabs == tmo.tabs
connectedPopups == tmo.connectedPopups

\* The background script while a handler runs: its state, the control messages it
\* has sent to tabs and the CurrentMedia messages it has sent to the popups.
Relay == [tabs |-> tabs, connectedPopups |-> connectedPopups, sent |-> <<>>, popups |-> <<>>]

\* sendTabMedia(): up to its await, which is its last statement. The media of the
\* payload are kept as a set.
sendTabMedia(w) ==
  IF w.connectedPopups = 0 THEN w
  ELSE [w EXCEPT !.popups = Append(@,
          {[tabId |-> id, state |-> w.tabs[id].value[1].state,
            hasControls |-> w.tabs[id].value[1].hasControls] :
             id \in {i \in TabIds : /\ w.tabs[i].has
                                    /\ w.tabs[i].value # Null
                                    /\ w.tabs[i].value[1].state # Null}})]

\* A handleTabMedia that takes a tab without an entry for a tab without a state.
handleTabMediaUnregistered(w, tabId, state, hasControls) ==
  IF state = Null \/ state[1].source = Null THEN w
  ELSE sendTabMedia([w EXCEPT !.tabs[tabId] =
         [has |-> TRUE,
          value |-> Some([reverseDomain |-> state[1].source[1], state |-> state,
                          hasControls |-> hasControls])]])

\* handleTabMedia(tabId, state, hasControls): it has no await, so it runs to its end.
handleTabMedia(w, tabId, state, hasControls) ==
  IF ~w.tabs[tabId].has THEN w
  ELSE LET currentState == w.tabs[tabId].value
       IN IF state = Null
          THEN IF currentState = Null THEN w
               ELSE sendTabMedia([w EXCEPT !.tabs[tabId].value =
                                    Some([currentState[1] EXCEPT !.state = Null])])
          ELSE IF state[1].source = Null THEN w
          ELSE sendTabMedia([w EXCEPT !.tabs[tabId].value =
                 Some([reverseDomain |-> state[1].source[1], state |-> state,
                       hasControls |-> hasControls])])

\* A registerTab that does not look whether the tab is registered.
registerTabAgain(w, tab) ==
  IF tab.id = 0 \/ ~tab.url THEN w
  ELSE [w EXCEPT !.tabs[tab.id] = NullTab,
                 !.sent = Append(@, [tabId |-> tab.id, type |-> "SendMediaUpdates"])]

\* registerTab(tab), with tab = [id, url]: url tells whether the tab has a url.
registerTab(w, tab) ==
  IF tab.id = 0 THEN w
  ELSE IF w.tabs[tab.id].has THEN w
  ELSE IF ~tab.url THEN w
  ELSE [w EXCEPT !.tabs[tab.id] = NullTab,
                 !.sent = Append(@, [tabId |-> tab.id, type |-> "SendMediaUpdates"])]

\* unregisterTab(tabId, sendCancel)
unregisterTab(w, tabId, sendCancel) ==
  IF ~w.tabs[tabId].has THEN w
  ELSE LET w1 == IF sendCancel
                 THEN [w EXCEPT !.sent = Append(@, [tabId |-> tabId,
                                                    type |-> "CancelMediaUpdates"])]
                 ELSE w
           w2 == handleTabMedia(w1, tabId, Null, FALSE)
       IN [w2 EXCEPT !.tabs[tabId] = NoTab]

\* onTabAudible(tabId, audible, tab)
onTabAudible(w, tabId, audible, tab) ==
  IF audible THEN registerTab(w, tab) ELSE unregisterTab(w, tabId, TRUE)

\* The last control messages sent to each tab (the three most recent ones), with
\* the messages of `sent` added.
RECURSIVE Controls(_, _)
Controls(c, sent) ==
  IF sent = <<>> THEN c
  ELSE LET id == Head(sent).tabId
           all == Append(c[id], Head(sent).type)
       IN Controls([c EXCEPT ![id] = IF Len(all) > 3 THEN Tail(all) ELSE all], Tail(sent))

\* What the history keeps of a step of the background script.
RelayHistory(op, tabId, state, w) ==
  [op |-> op, tabId |-> tabId, state |-> state, sent |-> w.sent, popups |-> w.popups,
   registered |-> tabs[tabId].has]

\* The step of a handler that leaves the background script as w.
RelayStep(op, tabId, state, w) ==
  /\ tmo' = [tabs |-> w.tabs, connectedPopups |-> w.connectedPopups]
  /\ pg' = Controls(pg, w.sent)
  /\ last' = RelayHistory(op, tabId, state, w)

\* The media states a content script reports: none, one with a source and one
\* without.
ReportedStates ==
  {Null, Some([source |-> Some("com.example"), content |-> "a"]),
   Some([source |-> Null, content |-> "a"])}

\* The browser (page: which tabs have a url), the messages of tabs in flight (mg),
\* the control messages sent so far (pg) and the background script (tmo); init()
\* has found no tab.
InitRelay ==
  /\ now = 0
  /\ page \in {[url |-> u] : u \in {f \in [TabIds -> BOOLEAN] : f[1]}}
  /\ mg = {}
  /\ pg = [id \in TabIds |-> <<>>]
  /\ ppo = <<>>
  /\ tmo = [tabs |-> [id \in TabIds |-> NoTab], connectedPopups |-> 0]
  /\ last = RelayHistory("Init", 1, Null, Relay)

\* tabs.onUpdated with changeInfo.discarded === true
TabDiscarded(tabId) ==
  /\ RelayStep("onUpdated", tabId, Null, unregisterTab(Relay, tabId, TRUE))
  /\ UNCHANGED <<now, page, mg, ppo>>

\* tabs.onUpdated with changeInfo.audible defined
TabAudible(tabId, audible) ==
  /\ RelayStep("onUpdated", tabId, Null,
               onTabAudible(Relay, tabId, audible, [id |-> tabId, url |-> page.url[tabId]]))
  /\ UNCHANGED <<now, page, mg, ppo>>

\* tabs.onRemoved
TabRemoved(tabId) ==
  /\ RelayStep("onRemoved", tabId, Null, unregisterTab(Relay, tabId, TRUE))
  /\ UNCHANGED <<now, page, mg, ppo>>

\* The content script of a tab sends MediaChanged.
SendMediaChanged(tabId, state, hasControls) ==
  /\ mg' = mg \cup {[tabId |-> tabId, state |-> state, hasControls |-> hasControls]}
  /\ mg' # mg /\ Cardinality(mg') <= MaxInFlight
  /\ last' = RelayHistory("sendMessage", tabId, state, Relay)
  /\ UNCHANGED <<now, page, pg, ppo, tmo>>

\* runtime.onMessage with TabMessage.MediaChanged
MediaChanged(message) ==
  /\ message \in mg
  /\ mg' = mg \ {message}
  /\ RelayStep("MediaChanged", message.tabId, message.state,
               handleTabMedia(Relay, message.tabId, message.state, message.hasControls))
  /\ UNCHANGED <<now, page, ppo>>

\* runtime.onMessage with PopupMessage.GetCurrentMedia
GetCurrentMedia ==
  /\ RelayStep("GetCurrentMedia", 1, Null, sendTabMedia(Relay))
  /\ UNCHANGED <<now, page, mg, ppo>>

\* runtime.onConnect, and onDisconnect of a port
PopupConnects ==
  /\ connectedPopups < MaxPopups
  /\ RelayStep("onConnect", 1, Null, [Relay EXCEPT !.connectedPopups = @ + 1])
  /\ UNCHANGED <<now, page, mg, ppo>>

PopupDisconnects ==
  /\ connectedPopups > 0
  /\ RelayStep("onDisconnect", 1, Null, [Relay EXCEPT !.connectedPopups = Max(0, @ - 1)])
  /\ UNCHANGED <<now, page, mg, ppo>>

NextRelay ==
  \/ \E tabId \in TabIds : TabDiscarded(tabId)
  \/ \E tabId \in TabIds, audible \in BOOLEAN : TabAudible(tabId, audible)
  \/ \E tabId \in TabIds : TabRemoved(tabId)
  \/ \E tabId \in TabIds, state \in ReportedStates, hasControls \in {TRUE} :
       SendMediaChanged(tabId, state, hasControls)
  \/ \E message \in [tabId : TabIds, state : ReportedStates, hasControls : {TRUE}] :
       MediaChanged(message)
  \/ GetCurrentMedia
  \/ PopupConnects
  \/ PopupDisconnects

SpecRelay == InitRelay /\ [][NextRelay]_vars

\* ------------------------------------------------- the popout window

\* The windows the browser creates for the background script get the ids
\* 1..MaxWindows; popoutWindowId === undefined is 0.
MaxWindows == 3
NoWindow == 0

\* The background script (tmo: popoutWindowId), the browser (page: the popout
\* windows that are open and the number of windows created so far) and the handlers
\* that wait at an await (mg): createPopout for windows.create, hasPopoutWindow for
\* windows.get, each with the answer of the browser.
popoutWindowId == tmo.popoutWindowId

InitPopout ==
  /\ now = 0
  /\ page = [windows |-> {}, created |-> 0]
  /\ mg = {}
  /\ pg = <<>>
  /\ ppo = <<>>
  /\ tmo = [popoutWindowId |-> NoWindow]
  /\ last = [op |-> "Init", window |-> NoWindow]

\* runtime.onMessage with PopupMessage.OpenPopout, up to the first await: with a
\* popout, focusPopout() asks the browser to focus it and has nothing left to do;
\* without, createPopout() calls windows.create and waits for the window.
OpenPopout ==
  IF popoutWindowId # NoWindow
  THEN /\ last' = [op |-> "focusPopout", window |-> popoutWindowId]
       /\ UNCHANGED <<now, page, mg, pg, ppo, tmo>>
  ELSE /\ page.created < MaxWindows
       /\ page' = [windows |-> page.windows \cup {page.created + 1},
                   created |-> page.created + 1]
       /\ mg' = mg \cup {[await |-> "windows.create", window |-> page.created + 1,
                          found |-> TRUE]}
       /\ last' = [op |-> "createPopout", window |-> page.created + 1]
       /\ UNCHANGED <<now, pg, ppo, tmo>>

\* createPopout() after its await: popoutWindowId = popup.id; onPopoutOpened()
PopoutCreated(handler) ==
  /\ handler \in mg /\ handler.await = "windows.create"
  /\ mg' = mg \ {handler}
  /\ tmo' = [tmo EXCEPT !.popoutWindowId = handler.window]
  /\ last' = [op |-> "onPopoutOpened", window |-> handler.window]
  /\ UNCHANGED <<now, page, pg, ppo>>

\* The window is closed, and windows.onRemoved is called.
WindowRemoved(closedWindowId) ==
  /\ closedWindowId \in page.windows
  /\ page' = [page EXCEPT !.windows = @ \ {closedWindowId}]
  /\ tmo' = IF closedWindowId = popoutWindowId
            THEN [tmo EXCEPT !.popoutWindowId = NoWindow] ELSE tmo
  /\ last' = [op |-> "onRemoved", window |-> closedWindowId]
  /\ UNCHANGED <<now, mg, pg, ppo>>

\* runtime.onMessage with PopupMessage.GetPopoutState: hasPopoutWindow() up to its
\* await of windows.get(popoutWindowId).
GetPopoutState ==
  /\ popoutWindowId # NoWindow
  /\ mg' = mg \cup {[await |-> "windows.get", window |-> popoutWindowId,
                     found |-> popoutWindowId \in page.windows]}
  /\ last' = [op |-> "hasPopoutWindow", window |-> popoutWindowId]
  /\ UNCHANGED <<now, page, pg, ppo, tmo>>

\* hasPopoutWindow() after its await: the catch block resets popoutWindowId.
PopoutStateKnown(handler) ==
  /\ handler \in mg /\ handler.await = "windows.get"
  /\ mg' = mg \ {handler}
  /\ tmo' = IF handler.found THEN tmo ELSE [tmo EXCEPT !.popoutWindowId = NoWindow]
  /\ last' = [op |-> "PopoutState", window |-> handler.window]
  /\ UNCHANGED <<now, page, pg, ppo>>

\* The handlers that can wait at an await.
Awaiting ==
  [await : {"windows.create", "windows.get"}, window : 1..MaxWindows, found : BOOLEAN]

NextPopout ==
  \/ OpenPopout
  \/ \E handler \in Awaiting : PopoutCreated(handler)
  \/ \E closedWindowId \in 1..MaxWindows : WindowRemoved(closedWindowId)
  \/ GetPopoutState
  \/ \E handler \in Awaiting : PopoutStateKnown(handler)

SpecPopout == InitPopout /\ [][NextPopout]_vars

\* ------------------------------------------------------------- properties

\* The classification of #handleUpdate's fused state against the previous state.
Change(u) == determineChanges(u.fused[1], u.previous, now)

\* C1: every handled update whose fused state is non-null calls the registered
\* callbacks, once each, exactly when the state's change against previousMediaState
\* is StartedPlaying, TrackChanged or PlaybackStateChanged; when the change is
\* Nothing no callback is called and previousMediaState stays as it was.
C1_EmitsExactlyOnChange ==
  \A i \in 1..Len(last.updates) :
    LET u == last.updates[i]
    IN u.fused # Null =>
         /\ Len(u.deliveries) > 0 <=>
              Change(u) \in {"StartedPlaying", "TrackChanged", "PlaybackStateChanged"}
         /\ Len(u.deliveries) \in {0, Len(tmo.eventCallbacks)}
         /\ \A k \in 1..Len(u.deliveries) :
              /\ u.deliveries[k].callback = tmo.eventCallbacks[k]
              /\ u.deliveries[k].payload # Null
         /\ Change(u) = "Nothing" => u.deliveries = <<>> /\ u.after = u.previous

\* An update with an unchanged state since the previous emission is suppressed.
C1_Witness ==
  \E i \in 1..Len(last.updates) :
    LET u == last.updates[i]
    IN /\ u.fused # Null /\ u.previous # Null
       /\ Change(u) = "Nothing"
       /\ u.deliveries = <<>>
       /\ tmo.previousMediaState = u.previous

\* C2: while the TabMediaObserver is Idle (after stop() returned, until the next
\* start()) nothing of the core is scheduled or attached: no polling interval, no
\* pending immediate check, no stopped-mutating timeout and no listener.
C2_NothingLingersAfterStop ==
  tmo.observerState = "Idle" =>
    /\ mg.intervals = 0 /\ mg.immediate = 0
    /\ pg.intervals = 0 /\ pg.immediate = 0
    /\ ppo.mutationStoppedTimeout = Null
    /\ mg.listeners = <<>> /\ pg.listeners = <<>>

\* C3: while the TabMediaObserver is Idle, currentMediaElement,
\* currentProgressElement, estimatedTrackStartTime and previousMediaState are null.
C3_StopIsFullReset ==
  tmo.observerState = "Idle" =>
    /\ tmo.currentMediaElement = NULL
    /\ tmo.currentProgressElement = NULL
    /\ tmo.estimatedTrackStartTime = NoNumber
    /\ tmo.previousMediaState = Null

\* An iteration of #onMutated on a value mutation of an element whose entry holds a
\* baseline sample, and whose attribute holds a number.
Sampled(v) ==
  /\ v.attributeName = "value"
  /\ v.before.entry.has
  /\ IsNumber(v.before.entry.lastValue)
  /\ IsNumber(v.before.entry.lastValueTimestamp)
  /\ IsNumber(v.value)

\* The elapsed milliseconds and the raw delta since the baseline.
Elapsed(v) == now - v.before.entry.lastValueTimestamp
Delta(v) == v.value - v.before.entry.lastValue

\* A larger value while no winner is locked in.
Candidate(v) ==
  Sampled(v) /\ v.before.current = NULL /\ v.value > v.before.entry.lastValue

\* The value advanced at wall-clock rate: within 25 as milliseconds when the delta is
\* at least half the elapsed milliseconds, within 250 as seconds otherwise.
AsMilliseconds(v) == 2 * Delta(v) >= Elapsed(v)
WithinEpsilon(v) ==
  \/ AsMilliseconds(v) /\ Abs(Elapsed(v) - Delta(v)) <= 25
  \/ ~AsMilliseconds(v) /\ Abs(Elapsed(v) - 1000 * Delta(v)) <= 250

\* C4, as stated: a larger value at wall-clock rate within epsilon, on a tracked
\* element with a baseline and no winner locked in, locks the element in.
C4_LockInAsStated ==
  \A i \in 1..Len(last.visits) :
    LET v == last.visits[i]
    IN Candidate(v) /\ WithinEpsilon(v) => v.after.current = v.target

\* C4: a larger value at wall-clock rate within epsilon (as milliseconds when the
\* delta is at least half the elapsed milliseconds, as seconds otherwise), on an
\* element that is in the document, has a baseline and while no winner is locked
\* in, locks the element in.
C4_LockInWhenInDocument ==
  \A i \in 1..Len(last.visits) :
    LET v == last.visits[i]
    IN Candidate(v) /\ v.inDocument /\ WithinEpsilon(v) => v.after.current = v.target

\* An element counting seconds is locked in by its second sample.
C4_Witness ==
  \E i \in 1..Len(last.visits) :
    LET v == last.visits[i]
    IN /\ Candidate(v) /\ v.inDocument /\ WithinEpsilon(v)
       /\ Delta(v) = 1
       /\ ppo.current = v.target

\* A value mutation with a value not above the baseline.
NotIncreasing(v) == Sampled(v) /\ v.value <= v.before.entry.lastValue

\* The only effect of the iteration is the new baseline.
OnlyRebaselines(v) ==
  /\ v.after.current = v.before.current
  /\ v.after.entry = [v.before.entry EXCEPT !.lastValue = v.value,
                                            !.lastValueTimestamp = now]
  /\ v.after.timeout = v.before.timeout
  /\ v.forwarded = 0

\* C5, as stated: a value mutation whose value is not above the recorded lastValue
\* never sets the winner, and only replaces the baseline with the new sample.
C5_OnlyRebaselinesAsStated ==
  \A i \in 1..Len(last.visits) :
    LET v == last.visits[i]
    IN NotIncreasing(v) => OnlyRebaselines(v)

\* C5: a value mutation whose value is not above the recorded lastValue never sets
\* the winner; while no winner is locked in and the element is in the document, its
\* only effect is to replace the baseline with the new sample.
C5_NeverLocksAndRebaselines ==
  \A i \in 1..Len(last.visits) :
    LET v == last.visits[i]
    IN NotIncreasing(v) =>
         /\ v.after.current = v.before.current
         /\ v.inDocument /\ v.before.current = NULL => OnlyRebaselines(v)

\* A smaller value (a seek backwards) has become the baseline.
C5_Witness ==
  \E i \in 1..Len(last.visits) :
    LET v == last.visits[i]
    IN /\ NotIncreasing(v) /\ v.inDocument /\ v.before.current = NULL
       /\ v.value < v.before.entry.lastValue
       /\ v.before.entry.lastValueTimestamp < now
       /\ ppo.state[v.target].lastValue = v.value
       /\ ppo.state[v.target].lastValueTimestamp = now
       /\ ppo.current = NULL

\* C6: a pair of increasing samples with raw delta d over t elapsed milliseconds is
\* tested as milliseconds when 2d >= t, with the raw delta and an epsilon of 25, and
\* as seconds otherwise, with the delta times 1000 and an epsilon of 250; the
\* element is locked in exactly when the test passes, an element tested as seconds
\* has valuePrecision Seconds, and a failed test keeps the raw value as baseline.
C6_UnitAndEpsilon ==
  \A i \in 1..Len(last.visits) :
    LET v == last.visits[i]
    IN Candidate(v) /\ v.inDocument =>
         /\ v.after.current = v.target <=>
              IF 2 * Delta(v) >= Elapsed(v)
              THEN Abs(Elapsed(v) - Delta(v)) <= 25
              ELSE Abs(Elapsed(v) - 1000 * Delta(v)) <= 250
         /\ v.after.entry.valuePrecision =
              IF 2 * Delta(v) >= Elapsed(v) THEN v.before.entry.valuePrecision
              ELSE Seconds
         /\ v.after.current # v.target =>
              /\ v.after.current = NULL
              /\ v.after.entry.lastValue = v.value
              /\ v.after.entry.lastValueTimestamp = now

\* A pair tested as milliseconds that misses the epsilon of 25 by one, after a pair
\* that would pass as milliseconds was tested as seconds.
C6_Witness ==
  \E i \in 1..Len(last.visits) :
    LET v == last.visits[i]
    IN /\ Candidate(v) /\ v.inDocument
       /\ 2 * Delta(v) >= Elapsed(v)
       /\ Abs(Elapsed(v) - Delta(v)) = 26
       /\ ppo.current = NULL

\* The steps that end an observation session of the progress observer.
SessionEnds(h) ==
  \/ h.op \in {"ProgressStop", "ProgressRestart"}
  \/ h.op = "ProgressPoll" /\ h.changed

\* C7: after stop() or restart() of the progress observer (also the restart of a
\* poll that found the element list changed) no winner is locked in, and no entry
\* of the session before is left: an entry is the fresh one of this poll.
C7_SessionDiscarded ==
  SessionEnds(last) =>
    /\ ppo.current = NULL
    /\ \A e \in ProgressElements :
         ppo.state[e] \in {NoEntry, FreshEntry(e, page.value[e], now)}

\* C8: within one observation session the winner, once set, stays; while it is set
\* no iteration of #onMutated changes an entry (no rate test), and a record is
\* forwarded only if its target is the winner.
C8_FirstWinnerWins ==
  [][/\ ppo.current # NULL /\ ~SessionEnds(last') => ppo'.current = ppo.current
     /\ \A i \in 1..Len(last'.visits) :
          LET v == last'.visits[i]
          IN /\ v.before.current # NULL =>
                  /\ v.after.current = v.before.current
                  /\ v.after.entry = v.before.entry
             /\ v.forwarded > 0 => v.before.current = v.target]_vars

\* With a winner locked in, another element advances at wall-clock rate from its
\* baseline and is not taken.
C8_Witness ==
  \E i \in 1..Len(last.visits) :
    LET v == last.visits[i]
    IN /\ Sampled(v) /\ v.inDocument
       /\ v.before.current \notin {NULL, v.target}
       /\ v.value > v.before.entry.lastValue
       /\ Abs(Elapsed(v) - Delta(v)) <= 25
       /\ ppo.current = v.before.current

\* C9: when a poll finds that the element list of a started group observer has
\* become empty, every registered callback has been called exactly once, with
\* undefined, and the observer has been restarted.
C9_EmptyListSignalled ==
  last.op = "MediaPoll" /\ last.changed /\ last.polled = <<>> =>
    /\ Len(last.calls) = Len(mg.eventCallbacks)
    /\ \A i \in 1..Len(mg.eventCallbacks) :
         /\ last.calls[i].callback = mg.eventCallbacks[i]
         /\ last.calls[i].element = "undefined"
    /\ mg.currentElements = <<>> /\ mg.listeners = <<>> /\ mg.intervalTimeout

\* The listeners attached for the callback to the element for the event.
Attached(g, element, callback, eventName) ==
  {k \in 1..Len(g.listeners) :
     /\ g.listeners[k].element = element
     /\ g.listeners[k].callback = callback
     /\ g.listeners[k].eventName = eventName}

\* C10: if elements are tracked, every registered callback is attached to every
\* tracked element exactly once (for each event of the strategy), nothing else is
\* attached and pendingEventCallbacks is empty; if no elements are tracked, no
\* listener is attached and pendingEventCallbacks is the list of registered
\* callbacks.
C10_ListenersMatchCallbacks ==
  IF Len(mg.currentElements) > 0
  THEN /\ mg.pendingEventCallbacks = <<>>
       /\ \A i \in 1..Len(mg.currentElements), j \in 1..Len(mg.eventCallbacks),
            n \in 1..Len(mg.eventNames) :
            Cardinality(Attached(mg, mg.currentElements[i], mg.eventCallbacks[j],
                                 mg.eventNames[n])) = 1
       /\ Len(mg.listeners) =
            Len(mg.currentElements) * Len(mg.eventCallbacks) * Len(mg.eventNames)
  ELSE /\ mg.listeners = <<>>
       /\ mg.pendingEventCallbacks = mg.eventCallbacks

\* Two callbacks, one registered while no element was tracked, are attached to two
\* elements after the restart of a poll that found the list changed.
C10_Witness ==
  /\ last.op = "MediaPoll" /\ last.changed
  /\ Len(mg.currentElements) = 2
  /\ Len(mg.eventCallbacks) = 2
  /\ Len(mg.listeners) = 4 * Len(mg.eventNames)

\* C11: a poll of the source observer whose polled list differs from the baseline
\* in length, or in the element at some index, notifies the listener (the group
\* observer restarts: it tracks the polled list and a polling interval is set) and
\* adopts the polled list as baseline; a poll whose list has the length and the
\* elements of the baseline notifies nobody and leaves baseline, tracked elements,
\* listeners and interval timers as they were.
C11_PollNotifiesOnDifference ==
  [][last'.op = "MediaPoll" =>
       LET polled == last'.polled
           baseline == mg.previousElements
           differs == \/ Len(polled) # Len(baseline)
                      \/ \E i \in 1..Len(polled) : polled[i] # baseline[i]
       IN IF differs
          THEN /\ last'.changed
               /\ mg'.previousElements = polled
               /\ mg'.currentElements = polled
               /\ mg'.intervalTimeout /\ mg'.immediate >= 1
          ELSE /\ ~last'.changed
               /\ mg'.previousElements = baseline
               /\ mg'.currentElements = mg.currentElements
               /\ mg'.listeners = mg.listeners
               /\ mg'.intervals = mg.intervals
               /\ mg'.intervalTimeout = mg.intervalTimeout
               /\ mg'.immediate <= mg.immediate]_vars

\* A poll found the other element in the place of the one tracked, and the observer
\* with a callback registered now tracks it.
C11_Witness ==
  /\ last.op = "MediaPoll" /\ last.changed
  /\ last.polled = <<"m2">>
  /\ mg.previousElements = <<"m2">>
  /\ mg.currentElements = <<"m2">>
  /\ Len(mg.listeners) = Len(mg.eventNames)

\* A group observer of media elements used as TabMediaObserver uses it (restart()
\* to start, stop() to stop), whose timers fire: a pending zero-delay check runs,
\* and an interval that is set keeps firing.
NextGroupFair ==
  \/ \E e \in MediaElements : InsertMedia(e)
  \/ \E e \in MediaElements : RemoveMedia(e)
  \/ \E immediate \in BOOLEAN : MediaPoll(immediate)
  \/ GroupStop
  \/ GroupRestart
  \/ \E callback \in {"a", "b"} : GroupAddEventListener(callback)

SpecGroupFair ==
  /\ InitGroup
  /\ [][NextGroupFair]_vars
  /\ WF_vars(MediaPoll(TRUE))
  /\ WF_vars(MediaPoll(FALSE))

\* The lists the media element source can return.
MediaLists == {TabMediaElementSourceGet([NewPage EXCEPT !.media = s]) : s \in SUBSET MediaElements}

\* Every registered callback is attached once to each tracked element.
AllAttached(g) ==
  \A i \in 1..Len(g.currentElements), j \in 1..Len(g.eventCallbacks),
     n \in 1..Len(g.eventNames) :
     Cardinality(Attached(g, g.currentElements[i], g.eventCallbacks[j],
                          g.eventNames[n])) = 1

Tolerance(source) ==
  CASE source = "MediaElement" -> 100
    [] source = "ProgressElementMilliseconds" -> 250
    [] source = "ProgressElementSeconds" -> 1000
    [] source = "Estimated" -> 250

Within(a, b) ==
  /\ a.playing = b.playing
  /\ a.duration = b.duration
  /\ Abs(livePosition(a, now) - livePosition(b, now)) <
       Min(Tolerance(a.source), Tolerance(b.source))

\* C13: determineChanges gives StartedPlaying when there is no previous state;
\* otherwise TrackChanged when the metadata differ, whatever the playback states;
\* otherwise PlaybackStateChanged when the playback states are not equal within the
\* smaller of the two sources' tolerances; otherwise Nothing.
C13_DecisionOrder ==
  last.op = "determineChanges" =>
    last.result =
      IF tmo.previousMediaState = Null THEN "StartedPlaying"
      ELSE IF tmo.previousMediaState[1].mediaMetadata # last.state.mediaMetadata
           THEN "TrackChanged"
      ELSE IF ~Within(tmo.previousMediaState[1].playbackState, last.state.playbackState)
           THEN "PlaybackStateChanged"
      ELSE "Nothing"

\* Metadata and playback state both differ from the previous state: TrackChanged.
C13_Witness ==
  /\ last.op = "determineChanges"
  /\ tmo.previousMediaState # Null
  /\ tmo.previousMediaState[1].mediaMetadata # last.state.mediaMetadata
  /\ tmo.previousMediaState[1].playbackState.playing # last.state.playbackState.playing
  /\ last.result = "TrackChanged"

\* C14: for a state and a previous state with equal metadata, equal playing flag,
\* equal duration and live positions that differ by less than the smaller of the
\* two sources' tolerances, determineChanges returns Nothing.
C14_NothingWithinTolerance ==
  last.op = "determineChanges" /\ tmo.previousMediaState # Null =>
    LET previous == tmo.previousMediaState[1]
    IN previous.mediaMetadata = last.state.mediaMetadata
       /\ Within(previous.playbackState, last.state.playbackState)
       => last.result = "Nothing"

\* Two playing states of different sources, 99 ms apart at the time of the
\* comparison: nothing has changed.
C14_Witness ==
  /\ last.op = "determineChanges"
  /\ tmo.previousMediaState # Null
  /\ tmo.previousMediaState[1].mediaMetadata = last.state.mediaMetadata
  /\ tmo.previousMediaState[1].playbackState.source = "MediaElement"
  /\ last.state.playbackState.source = "Estimated"
  /\ last.state.playbackState.playing
  /\ Within(tmo.previousMediaState[1].playbackState, last.state.playbackState)
  /\ Abs(livePosition(tmo.previousMediaState[1].playbackState, now)
         - livePosition(last.state.playbackState, now)) = 99
  /\ last.result = "Nothing"

\* The verdict on the last two states had both come from the given source.
FromSource(source) ==
  determineChanges(
    [last.state EXCEPT !.playbackState.source = source],
    Some([tmo.previousMediaState[1] EXCEPT !.playbackState.source = source]),
    now)

\* C15: the tolerance of source Estimated is at least that of every other source
\* and the tolerance of source MediaElement is at most that of every other source:
\* two states of one source that count as unchanged count as unchanged as Estimated
\* states too, and two states that count as unchanged as MediaElement states count
\* as unchanged whatever their source.
C15_EstimatedMostPermissive ==
  /\ last.op = "determineChanges"
  /\ tmo.previousMediaState # Null
  /\ tmo.previousMediaState[1].playbackState.source = last.state.playbackState.source
  => /\ \A source \in PlaybackStateSource :
          /\ EPSILONS_FOR_PLAYBACK_STATE_SOURCE["Estimated"] >=
               EPSILONS_FOR_PLAYBACK_STATE_SOURCE[source]
          /\ EPSILONS_FOR_PLAYBACK_STATE_SOURCE["MediaElement"] <=
               EPSILONS_FOR_PLAYBACK_STATE_SOURCE[source]
     /\ last.result = "Nothing" => FromSource("Estimated") = "Nothing"
     /\ FromSource("MediaElement") = "Nothing" => last.result = "Nothing"

\* C16: every PlaybackState and TabMediaPlaybackState that is constructed has a
\* timestamp that is not negative and a duration that is null or strictly positive;
\* the constructor throws for a negative timestamp, for a zero duration and for a
\* negative duration.
C16_ConstructorRejects ==
  last.op \in {"new PlaybackState", "new TabMediaPlaybackState"} =>
    /\ last.value # Null =>
         /\ last.args.positionTimestamp >= 0
         /\ last.args.duration = NoNumber \/ last.args.duration > 0
    /\ \/ last.args.positionTimestamp < 0
       \/ last.args.duration = 0
       \/ IsNumber(last.args.duration) /\ last.args.duration < 0
       => last.value = Null

C18_PlayingExtrapolatesClamped ==
  last.op = "livePosition" /\ last.value[1].playing /\ last.when >= 0 =>
    LET ps == last.value[1]
        live == last.result[1]
        extrapolated == ps.position + (last.when - ps.positionTimestamp)
        present == IsNumber(ps.duration)
    IN /\ last.result # Null
       /\ live >= 0
       /\ present => live <= ps.duration
       /\ \A earlier \in {b \in {last.before} : b # Null /\ b[1].when >= 0
                                                 /\ b[1].when <= last.when} :
            earlier[1].result[1] <= live
       /\ extrapolated >= 0 /\ (present => extrapolated <= ps.duration)
            => live = extrapolated

\* What #currentMediaState read: a current media element that is paused or muted,
\* one whose current time and duration are numbers, a progress element that is
\* tracked, one whose value and max can be read.
MediaKnownPaused ==
  /\ tmo.currentMediaElement # NULL
  /\ \/ page.mediaAttr[tmo.currentMediaElement].paused
     \/ page.mediaAttr[tmo.currentMediaElement].muted

MediaReadable ==
  /\ tmo.currentMediaElement # NULL
  /\ page.mediaAttr[tmo.currentMediaElement].currentTime # NaN
  /\ page.mediaAttr[tmo.currentMediaElement].duration # NaN

ProgressTracked == tmo.currentProgressElement # NULL

ProgressReadable ==
  /\ ProgressTracked
  /\ page.value[tmo.currentProgressElement] # NoNumber
  /\ page.max[tmo.currentProgressElement] # NoNumber

\* C19: the fused playing flag is true when the media session reports "playing" and
\* false when it reports "paused"; otherwise it is false when a progress element is
\* tracked that is not confirmed mutating, and else true unless a current media
\* element is known and is paused or muted.
C19_FusedPlayingFlag ==
  last.op = "currentMediaState" /\ last.state # Null =>
    LET playing == last.state[1].playbackState.playing
        reported == page.session.playbackState
    IN CASE reported = "playing" -> playing
         [] reported = "paused" -> ~playing
         [] OTHER ->
              IF ProgressTracked /\ tmo.currentProgressElementMutating # "true"
              THEN ~playing
              ELSE playing <=> ~MediaKnownPaused

\* Nothing reported by the media session, a media element that plays unmuted, and
\* a progress element that has stopped mutating: not playing.
C19_Witness ==
  /\ last.op = "currentMediaState"
  /\ last.state # Null
  /\ page.session.playbackState = "none"
  /\ tmo.currentMediaElement = "m1"
  /\ ~MediaKnownPaused
  /\ ProgressTracked
  /\ tmo.currentProgressElementMutating = "false"
  /\ ~last.state[1].playbackState.playing

\* C20: whenever the current media element has a current time and a duration that
\* are not NaN, the playback state has source MediaElement and the element's time
\* and duration in milliseconds, progress element or not; the progress element is
\* the source, by its valuePrecision, exactly when that does not apply and its value
\* and max can both be read.
C20_FusionPriority ==
  last.op = "currentMediaState" =>
    LET source == IF last.state = Null THEN "none"
                  ELSE last.state[1].playbackState.source
        precision == ppo.state[tmo.currentProgressElement].valuePrecision
    IN /\ MediaReadable =>
            /\ source = "MediaElement"
            /\ last.state[1].playbackState.position
                 = page.mediaAttr[tmo.currentMediaElement].currentTime \div 1000
            /\ last.state[1].playbackState.duration
                 = page.mediaAttr[tmo.currentMediaElement].duration \div 1000
       /\ ~MediaReadable /\ ProgressReadable =>
            source = IF precision = Milliseconds THEN "ProgressElementMilliseconds"
                     ELSE "ProgressElementSeconds"
       /\ source \in {"ProgressElementMilliseconds", "ProgressElementSeconds"} =>
            ~MediaReadable /\ ProgressReadable

\* A media element with a time and a duration, and a progress element that is
\* tracked, mutating and readable: the media element is the source.
C20_Witness ==
  /\ last.op = "currentMediaState"
  /\ MediaReadable
  /\ ProgressReadable
  /\ tmo.currentProgressElementMutating = "true"
  /\ last.state # Null
  /\ last.state[1].playbackState.source = "MediaElement"
  /\ last.state[1].playbackState.position = 1000
  /\ last.state[1].playbackState.duration = 3000

\* The handlers of TabMediaObserver that handle an update.
UpdateHandlers ==
  {"onMediaElementUpdated", "onProgressElementMutated", "onProgressElementStoppedMutating"}

\* C21: an update handled while neither the media element has a current time and a
\* duration nor the progress element a readable value and max produces a playback
\* state with source Estimated, the time elapsed since the estimated anchor as its
\* position and no duration.
C21_EstimatedWhenNothingBetter ==
  last.op \in UpdateHandlers /\ ~MediaReadable /\ ~ProgressReadable =>
    \A i \in 1..Len(last.updates) :
      /\ last.updates[i].fused # Null
      /\ last.updates[i].fused[1].playbackState.source = "Estimated"
      /\ last.updates[i].fused[1].playbackState.duration = NoNumber
      /\ tmo.estimatedTrackStartTime # NoNumber
      /\ last.updates[i].fused[1].playbackState.position
           = now - tmo.estimatedTrackStartTime

\* The inputs of the fusion that the observer holds.
FusionInputs(t) ==
  <<t.currentMediaElement, t.currentProgressElement, t.currentProgressElementMutating,
    t.useEstimatedTrackStartTime>>

\* C22: an update handled with the inputs of the update before it (the same current
\* elements on the same page and media session, the clock where it was or the
\* playback paused) delivers nothing to the callbacks, whatever the fused result,
\* "nothing playing" included.
C22_SecondUpdateDeliversNothing ==
  [][/\ last'.op \in UpdateHandlers
     /\ FusionInputs(tmo') = FusionInputs(tmo)
     /\ page' = page
     /\ tmo.previousMediaState # Null =>
          \/ tmo.previousMediaState[1].playbackState.positionTimestamp = now
          \/ ~tmo.previousMediaState[1].playbackState.playing
     => \A i \in 1..Len(last'.updates) : last'.updates[i].deliveries = <<>>]_vars

\* The hrefs a result holds for a type.
Hrefs(urls, type) == {urls[type][i].href : i \in 1..Len(urls[type])}

\* C23: without a track, an album and an artist pattern the result is the empty
\* map, whatever anchors the page contains, and a domain without an entry in the
\* table gets such an empty pattern set.
C23_NoPatternsNoLinks ==
  last.op = "findBestMatchingResourceLinks" =>
    LET linkPatterns == linkPatternsFor(page.reverseDomain)
    IN /\ page.reverseDomain \notin {"de.amazon.music", "com.tidal.listen"} =>
            ~linkPatterns.track /\ ~linkPatterns.album /\ ~linkPatterns.artist
       /\ ~linkPatterns.track /\ ~linkPatterns.album /\ ~linkPatterns.artist =>
            \A type \in {"Track", "Album", "Artist"} : last.urls[type] = <<>>

\* A page of a domain without an entry with a track, an album and two artist
\* anchors that carry the metadata texts: no links.
C23_Witness ==
  /\ last.op = "findBestMatchingResourceLinks"
  /\ page.reverseDomain = "org.example"
  /\ page.anchors[4] = [kind |-> "artist", text |-> <<"a", "b">>]
  /\ page.anchors[6] = [kind |-> "track", text |-> <<"t">>]
  /\ page.anchors[7] = [kind |-> "album", text |-> <<"l">>]
  /\ page.anchors[10] = [kind |-> "artist", text |-> <<"a">>]
  /\ \A type \in {"Track", "Album", "Artist"} : last.urls[type] = <<>>

\* The anchors 6 and 7 are siblings under one container; 4 and 10 are far away.
\* A page with a duplicate: one sibling and one far anchor are candidates of one
\* type with the same text, the other sibling is a candidate of another type, and
\* the fourth node holds no anchor.
DuplicateOf(near, other, far, type, otherType) ==
  /\ near \in {6, 7} /\ other \in {6, 7} /\ near # other /\ far \in {4, 10}
  /\ type # otherType
  /\ \E i \in 1..Len(last.elements[type]) : last.elements[type][i] = near
  /\ \E i \in 1..Len(last.elements[type]) : last.elements[type][i] = far
  /\ \E i \in 1..Len(last.elements[otherType]) : last.elements[otherType][i] = other
  /\ page.anchors[near].text = page.anchors[far].text
  /\ \A n \in {4, 10} \ {far} : page.anchors[n] = NoAnchor

\* C24: of two anchors that match the same text and pattern for one type, one a
\* sibling of a matching anchor of another type and one far away, the sibling's
\* href is returned for that type, wherever the far one is in the document and
\* whichever type has the duplicate.
C24_SiblingBeatsDistantDuplicate ==
  last.op = "findBestMatchingResourceLinks" =>
    \A near \in {6, 7}, other \in {6, 7}, far \in {4, 10} :
      \A type \in {"Track", "Album", "Artist"}, otherType \in {"Track", "Album", "Artist"} :
        DuplicateOf(near, other, far, type, otherType) =>
          Hrefs(last.urls, type) = {near}

\* The key of the pair of a with b, and the key of a with its closest b.
PairKey(a, b) ==
  LET ancestor == findClosestAncestor(a, b)
      d1 == findDistanceFromAncestor(a, ancestor)
      d2 == findDistanceFromAncestor(b, ancestor)
  IN <<Min(d1, d2), Max(d1, d2)>>

KeyLessEq(k1, k2) == k1[1] < k2[1] \/ (k1[1] = k2[1] /\ k1[2] <= k2[2])

ClosestKey(a, B) ==
  CHOOSE k \in {PairKey(a, B[i]) : i \in 1..Len(B)} :
    \A j \in 1..Len(B) : KeyLessEq(k, PairKey(a, B[j]))

\* findPairsWithClosestAncestor(A, B) returns exactly the pairs of minimal key.
ExactlyTheClosestPairs(A, B) ==
  LET pairs == findPairsWithClosestAncestor(A, B)
      minimal == {i \in 1..Len(A) :
                    \A j \in 1..Len(A) : KeyLessEq(ClosestKey(A[i], B), ClosestKey(A[j], B))}
  IN A # <<>> /\ B # <<>> =>
       /\ {pairs[i].first.node : i \in 1..Len(pairs)} = {A[i] : i \in minimal}
       /\ Len(pairs) = Cardinality(minimal)
       /\ \A i \in 1..Len(pairs) :
            /\ <<pairs[i].minDepth, pairs[i].maxDepth>> = ClosestKey(pairs[i].first.node, B)
            /\ <<pairs[i].minDepth, pairs[i].maxDepth>>
                 = PairKey(pairs[i].first.node, pairs[i].second.node)
            /\ pairs[i].minDepth = pairs[1].minDepth
            /\ pairs[i].maxDepth = pairs[1].maxDepth

\* C25: findPairsWithClosestAncestor(A, B) returns exactly the pairs (a, closest b
\* for a) whose key (min depth, max depth) is lexicographically minimal over all a:
\* all ties, no pair with a larger key, all with the same depths.
C25_ExactlyTheClosestPairs ==
  last.op = "findBestMatchingResourceLinks" =>
    /\ ExactlyTheClosestPairs(last.elements.Artist, last.elements.Album)
    /\ ExactlyTheClosestPairs(last.elements.Album, last.elements.Track)
    /\ ExactlyTheClosestPairs(last.elements.Artist, last.elements.Track)

\* C26: an anchor is an Artist candidate if and only if its pathname matches the
\* artist pattern and its trimmed text is not empty and is contained in the artist
\* text of the metadata or contains it (whatever the case of the letters).
C26_ArtistByContainment ==
  last.op = "findBestMatchingResourceLinks" /\ linkPatternsFor(page.reverseDomain).artist =>
    \A n \in {4, 6, 7, 10} :
      LET text == toUpperCase(Trim(page.anchors[n].text))
          artist == toUpperCase(Trim(LinkMetadata.artist))
      IN (\E i \in 1..Len(last.elements.Artist) : last.elements.Artist[i] = n)
         <=> /\ page.anchors[n].kind = "artist"
             /\ text # <<>>
             /\ Includes(artist, text) \/ Includes(text, artist)

\* A field of the record holds the text, an empty text counting as no field.
Carries(field, text) == field = IF text = "" THEN Null ELSE Some(text)

\* C27: the record that serialize() gives and the playback state rebuilt from it
\* preserve title, artist and album, the playing flag, and the position and the
\* duration in whole milliseconds, for every state, with empty artist and album and
\* without metadata too.
C27_RoundTrip ==
  last.op = "serialize" =>
    LET state == page.state
        record == last.record[1]
        rebuilt == last.playbackState[1]
    IN /\ state.mediaMetadata # Null =>
            /\ record.metadata # Null
            /\ record.metadata[1].title = Some(state.mediaMetadata[1].title)
            /\ Carries(record.metadata[1].artist, state.mediaMetadata[1].artist)
            /\ Carries(record.metadata[1].album, state.mediaMetadata[1].album)
       /\ state.mediaMetadata = Null /\ record.metadata # Null =>
            record.metadata[1].artist = Null /\ record.metadata[1].album = Null
       /\ rebuilt.playing = state.playbackState.playing
       /\ rebuilt.position = state.playbackState.position
       /\ rebuilt.duration = state.playbackState.duration

\* C28: an iteration on a value mutation whose attribute does not parse as a
\* number changes neither the entry of the element (lastValue, lastValueTimestamp,
\* valuePrecision, updateInterval) nor the winner, and forwards nothing.
C28_MalformedValueSkipped ==
  \A i \in 1..Len(last.visits) :
    LET v == last.visits[i]
    IN v.attributeName = "value" /\ v.value = NaN =>
         /\ v.after.entry = v.before.entry
         /\ v.after.current = v.before.current
         /\ v.forwarded = 0

\* C29: handling an update never throws out of the observer. An exception ends the
\* loops of #onMutated and #mutationCallback, so the records of a batch are all
\* processed exactly when no handler has thrown.
C29_NeverThrows == ~last.thrown

\* C30: the update interval of an element that is locked in is within epsilon of
\* the wall-clock time between the two samples that passed the rate test (25 for
\* an element that counts milliseconds, 250 for one that counts seconds), and a
\* watchdog that is scheduled has a delay of that interval + 2 * 25.
C30_WatchdogDelay ==
  /\ \A i \in 1..Len(last.visits) :
       LET v == last.visits[i]
       IN Candidate(v) /\ v.after.current = v.target =>
            Abs(v.after.entry.updateInterval - Elapsed(v)) <=
              IF AsMilliseconds(v) THEN 25 ELSE 250
  /\ ppo.mutationStoppedTimeout # Null =>
       ppo.mutationStoppedTimeout[1].delay =
         ppo.state[ppo.mutationStoppedTimeout[1].element].updateInterval + 2 * 25

\* C31: an element that is locked in has the valuePrecision of the unit under
\* which its rate test passed: Milliseconds when the sample pair was classified as
\* milliseconds, Seconds otherwise, whatever earlier sample pairs were classified as.
C31_PrecisionMatchesUnit ==
  \A i \in 1..Len(last.visits) :
    LET v == last.visits[i]
    IN Candidate(v) /\ v.after.current = v.target =>
         v.after.entry.valuePrecision =
           IF AsMilliseconds(v) THEN Milliseconds ELSE Seconds

\* C32: a mutation record whose target is a tracked element other than the
\* locked-in one leaves the stopped-mutating watchdog as it was: it neither arms nor
\* re-arms it, so a watchdog that has fired stays off until the winner mutates.
C32_OnlyWinnerRearms ==
  \A i \in 1..Len(last.visits) :
    LET v == last.visits[i]
    IN /\ v.before.current # NULL
       /\ v.target # v.before.current
       /\ v.before.entry.has
       => v.after.timeout = v.before.timeout

\* The records of the batch of the last step: what the first listener visited.
BatchSize == IF pg.listeners = <<>> THEN 0 ELSE Len(last.visits) \div Len(pg.listeners)
\* The records of the batch on the winner: those that found it locked in, and those
\* that left it locked in.
OnWinnerBefore ==
  {i \in 1..BatchSize : last.visits[i].inDocument
                          /\ last.visits[i].before.current = last.visits[i].target}
OnWinnerAfter ==
  {i \in 1..BatchSize : last.visits[i].inDocument
                          /\ last.visits[i].after.current = last.visits[i].target}

\* C33: a batch of mutation records invokes each registered mutation callback once
\* for each record on the locked-in element, however many progress elements the
\* shared MutationObserver tracks (the record that locks the element in may or may
\* not be forwarded).
C33_OncePerRecord ==
  last.op = "Mutate" /\ ~last.thrown =>
    /\ Len(last.calls) >= Cardinality(OnWinnerBefore) * Len(ppo.mutationCallbacks)
    /\ Len(last.calls) <= Cardinality(OnWinnerAfter) * Len(ppo.mutationCallbacks)

\* C34: while the TabMediaObserver is Idle no step calls a registered
\* TabMediaStateCallback, neither with a media state nor with null.
C34_IdleIsSilent == tmo.observerState = "Idle" => last.updates = <<>>

\* C35: when the update handled last gave the callbacks null, an update handled
\* next that fuses to a state is delivered to the callbacks, also when the state
\* equals the one delivered before the null.
C35_DeliveredAfterNull ==
  [][/\ last.updates # <<>>
     /\ last.updates[Len(last.updates)].deliveries # <<>>
     /\ last.updates[Len(last.updates)].deliveries[1].payload = Null
     /\ last'.updates # <<>>
     /\ last'.updates[1].fused # Null
     => last'.updates[1].deliveries # <<>>]_vars

\* C36: the element the accessor mediaElement returns is null or one of the
\* elements the media observer tracks at present.
C36_ActiveElementTracked ==
  \/ tmo.currentMediaElement = NULL
  \/ \E i \in 1..Len(mg.currentElements) : mg.currentElements[i] = tmo.currentMediaElement

\* C37: whatever start(), stop() and restart() calls a group observer has seen, at
\* most one polling interval of its source observer is active, and none is after
\* stop() has returned.
C37_OneInterval ==
  /\ mg.intervals <= 1
  /\ last.op = "GroupStop" => mg.intervals = 0

\* C38: the control messages sent to a tab alternate SendMediaUpdates,
\* CancelMediaUpdates, SendMediaUpdates, ..., the first one is SendMediaUpdates, and
\* the tab has an entry in the tabs map exactly when the last one is
\* SendMediaUpdates.
C38_ControlsAlternate ==
  \A id \in TabIds :
    /\ \A i \in 1..(Len(pg[id]) - 1) : pg[id][i] # pg[id][i + 1]
    /\ Len(pg[id]) \in {1, 2} => pg[id][1] = "SendMediaUpdates"
    /\ tabs[id].has <=> /\ pg[id] # <<>>
                        /\ pg[id][Len(pg[id])] = "SendMediaUpdates"

\* A tab that was registered, unregistered and registered again.
C38_Witness ==
  /\ pg[1] = <<"SendMediaUpdates", "CancelMediaUpdates", "SendMediaUpdates">>
  /\ last.op = "onUpdated" /\ last.tabId = 1 /\ Len(last.sent) = 1
  /\ tabs[1].has

\* C39: a MediaChanged message of a tab without an entry in the tabs map leaves the
\* map as it is and sends nothing to the popups.
C39_UnregisteredIgnored ==
  [][last'.op = "MediaChanged" /\ ~tabs[last'.tabId].has
       => tabs' = tabs /\ last'.popups = <<>>]_vars

\* A popup is connected and a media state with a source arrives from a tab that was
\* unregistered while the message was in flight.
C39_Witness ==
  /\ last.op = "MediaChanged" /\ ~last.registered
  /\ last.state # Null /\ last.state[1].source # Null
  /\ connectedPopups > 0
  /\ pg[last.tabId] # <<>>
  /\ pg[last.tabId][Len(pg[last.tabId])] = "CancelMediaUpdates"
  /\ \E id \in TabIds : tabs[id].has /\ tabs[id].value # Null

\* C40: at most one popout window is open at any time, and popoutWindowId, once
\* no createPopout() is waiting for its window, is the id of the open popout window
\* or undefined when there is none.
C40_OnePopout ==
  /\ Cardinality(page.windows) <= 1
  /\ (\A handler \in mg : handler.await # "windows.create") =>
       page.windows = IF popoutWindowId = NoWindow THEN {} ELSE {popoutWindowId}

====
